---------------------------- MODULE Spec2Model ----------------------------
(***************************************************************************)
(* A model of the Rune VM (src/src/vm/vm.c): VM creation, host function   *)
(* registration, rune_vm_init, rune_vm_call, the interpreter vm_exec and   *)
(* the linear-memory accessors.                                            *)
(*                                                                         *)
(* The C call stack is the sequence cstack: one entry per running vm_exec  *)
(* activation or host callback.  An interpreter step executes one          *)
(* instruction (NEXT() and the opcode's case).  The host drives the VM     *)
(* from the top level and from inside its callbacks.                       *)
(*                                                                         *)
(* Sizes are scaled: a page has RUNE_PAGE_SIZE bytes, a register window    *)
(* RUNE_MAX_REGS slots, the staging buffer RUNE_MAX_PARAMS slots.  i32     *)
(* values are the integers of the 32-bit two's-complement range; a         *)
(* uint32_t is kept as the i32 with the same bits.                         *)
(***************************************************************************)
EXTENDS Integers, Sequences, FiniteSets, TLC

(* ------------------------------ bounds -------------------------------- *)

\* bytes per page (65536 in the source), scaled
RUNE_PAGE_SIZE == 4

\* slots of a register window (256 in the source), scaled
RUNE_MAX_REGS == 3

\* slots of the argument staging buffer (16 in the source), scaled
RUNE_MAX_PARAMS == 3

\* cfg.stack_size given to rune_vm_new
StackSize == 2

\* cfg.fuel_limit given to rune_vm_new when metering is on
FuelLimit == 3

\* host API calls made in one behaviour
MaxHostOps == 4

\* instructions dispatched in one top-level rune_vm_call or rune_vm_init
MaxSteps == 10

\* registrations made in one behaviour
MaxHostFns == 2

(* ------------------------------ values -------------------------------- *)

\* INT32_MAX
MaxI32 == 2147483646 + 1

\* INT32_MIN
MinI32 == -MaxI32 - 1

\* rune_err_t
RUNE_OK == "OK"

RUNE_ERR_BADMODULE == "BADMODULE"

RUNE_ERR_OOM == "OOM"

RUNE_ERR_BOUNDS == "BOUNDS"

RUNE_ERR_DIVZERO == "DIVZERO"

RUNE_ERR_NOEXPORT == "NOEXPORT"

RUNE_ERR_NOIMPORT == "NOIMPORT"

RUNE_ERR_STACKOVERFLOW == "STACKOVERFLOW"

RUNE_ERR_TRAP == "TRAP"

RUNE_ERR_FUEL == "FUEL"

RUNE_ERR_BADOPCODE == "BADOPCODE"

RUNE_ERR_HOST == "HOST_ERROR"

\* rune_val_t constructors
rune_i32(x) == [type |-> "i32", v |-> x]

rune_i64(x) == [type |-> "i64", v |-> x]

rune_void == [type |-> "void", v |-> 0]

\* a rune_val_t of calloc'ed or memset-0 storage
ZeroVal == [type |-> "zero", v |-> 0]

\* a 0-based array from a sequence
Arr(seq) == [i \in 0..(Len(seq) - 1) |-> seq[i + 1]]

\* the number of elements of a 0-based array
Count(arr) == Cardinality(DOMAIN arr)

\* uint32_t/int32_t addition with wrap-around, on the i32 representation
Add32(a, b) ==
    IF a > 0 /\ b > 0 /\ a > MaxI32 - b THEN (a + MinI32) + (b + MinI32)
    ELSE IF a < 0 /\ b < 0 /\ a < MinI32 - b THEN (a - MinI32) + (b - MinI32)
    ELSE a + b

\* byte k (0..3) of the little-endian image of an i32
ByteOf(x, k) ==
    CASE k = 0 -> x % 256
      [] k = 1 -> (x \div 256) % 256
      [] k = 2 -> (x \div 65536) % 256
      [] k = 3 -> (x \div 16777216) % 256

\* the i32 whose little-endian image is the four bytes
FromBytes(b0, b1, b2, b3) ==
    b0 + b1 * 256 + b2 * 65536 + (IF b3 >= 128 THEN b3 - 256 ELSE b3) * 16777216

\* (int8_t) of a byte
SignExt8(b) == IF b >= 128 THEN b - 256 ELSE b

\* the uint16_t whose little-endian image is the two bytes
FromBytes16(b0, b1) == b0 + b1 * 256

\* (int16_t) of a uint16_t taken as a plain widening
SignExt16_zero_extends(h) == h

\* (int16_t) of a uint16_t
SignExt16(h) == IF h >= 32768 THEN h - 65536 ELSE h

\* the upper 32 bits of an int64_t held in a register: a 64-bit value within the
\* int32_t range is the record of rune_i64, its upper half being the sign
\* extension; any other 64-bit value carries its upper half in a field hi
HiWord(val) ==
    IF "hi" \in DOMAIN val THEN val.hi ELSE IF val.v < 0 THEN -1 ELSE 0

\* the int64_t whose lower and upper 32 bits are lo and hi
I64OfWords(lo, hi) ==
    IF hi = (IF lo < 0 THEN -1 ELSE 0) THEN rune_i64(lo)
    ELSE [type |-> "i64", v |-> lo, hi |-> hi]

\* the bytes of the uint64_t image of R(dst).as.i64, for a register that holds an
\* i64 or calloc'ed storage
Image64(val) ==
    CASE val.type = "i64" ->
             [k \in 1..8 |-> IF k <= 4 THEN ByteOf(val.v, k - 1)
                             ELSE ByteOf(HiWord(val), k - 5)]
      [] val.type = "zero" -> [k \in 1..8 |-> 0]

\* the operands of a signed / or % whose quotient is not representable: the
\* expression has undefined behaviour in C
DivOverflows(a, b, min) == a = min /\ b = -1

\* C's truncating signed division a / b (b # 0) of a type whose least value is
\* min; for min / -1 the value a wrapping division instruction leaves
TruncDiv(a, b, min) ==
    LET pos(d) == LET fl == a \div d
                  IN IF a < 0 /\ a % d # 0 THEN fl + 1 ELSE fl
    IN IF DivOverflows(a, b, min) THEN min
       ELSE IF b > 0 THEN pos(b)
       ELSE IF b = min THEN (IF a = min THEN 1 ELSE 0)
       ELSE -pos(-b)

\* C's signed remainder a % b (b # 0); for min % -1 the value a wrapping
\* division instruction leaves
TruncRem(a, b, min) ==
    IF DivOverflows(a, b, min) THEN 0 ELSE a - b * TruncDiv(a, b, min)

\* int32_t division and remainder
Div32(a, b) == TruncDiv(a, b, MinI32)

Rem32(a, b) == TruncRem(a, b, MinI32)

\* the quotient and remainder of the uint32_t images of a and b (b # 0), as
\* <<q, r>> on the i32 representation: a negative i32 stands for x + 2^32
DivModU32(a, b) ==
    LET half == (MaxI32 + (a \div 2)) + 1
        bit == a % 2
        hq == half \div b
        hr == half % b
        carry == hr + bit >= b - hr
    IN IF b < 0
       THEN IF a < 0 /\ a >= b THEN <<1, a - b>> ELSE <<0, a>>
       ELSE IF a >= 0 THEN <<a \div b, a % b>>
       ELSE IF b = 1 THEN <<a, 0>>
       ELSE IF carry THEN <<2 * hq + 1, (hr - (b - hr)) + bit>>
       ELSE <<2 * hq, 2 * hr + bit>>

\* uint32_t division and remainder, converted back to int32_t
DivU32(a, b) == DivModU32(a, b)[1]

RemU32(a, b) == DivModU32(a, b)[2]

\* int64_t division and remainder.  The 64-bit values of the model are those of
\* magnitude below 2^31, so INT64_MIN is not among them and no quotient of them
\* overflows.
Div64(a, b) == TruncDiv(a, b, MinI32)

Rem64(a, b) == TruncRem(a, b, MinI32)

\* uint64_t division converted back to int64_t, where the result is one of the
\* 64-bit values of the model: a negative i64 stands for x + 2^64
DivU64(a, b) ==
    CASE b < 0 -> IF a < 0 /\ a >= b THEN 1 ELSE 0
      [] b > 0 /\ a >= 0 -> a \div b


(* ------------------------------ module -------------------------------- *)

\* an instruction word (op:u8, dst:u8, s1:u8, s2:u8)
Ins(op, dst, s1, s2) == [op |-> op, dst |-> dst, s1 |-> s1, s2 |-> s2]

\* rune_func_t of an import
ImportFunc(i) == [is_import |-> TRUE, import_idx |-> i, reg_count |-> 0, code |-> Arr(<<>>)]

\* rune_func_t of a body; code is the word array, immediates are plain numbers
BodyFunc(regs, words) ==
    [is_import |-> FALSE, import_idx |-> 0, reg_count |-> regs, code |-> Arr(words)]

\* div(a, b): DIV32 R0,R0,R1; RET  (test_div_by_zero)
CodeDiv == <<Ins("DIV32", 0, 0, 1), Ins("RET", 0, 0, 0)>>

\* store_load(addr, val): STORE32 R1,[R0+0]; LOAD32 R0,[R0+0]; RET  (test_memory)
CodeStoreLoad ==
    <<Ins("STORE32", 1, 0, 0), 0, Ins("LOAD32", 0, 0, 0), 0, Ins("RET", 0, 0, 0)>>

\* loop(): top: LDI32 R0,1; JNZ R0,top; RET  (test_fuel_limit)
CodeLoop == <<Ins("LDI32", 0, 0, 0), 1, Ins("JNZ", 0, 0, 0), -4, Ins("RET", 0, 0, 0)>>

\* trap(): TRAP
CodeTrap == <<Ins("TRAP", 0, 0, 0)>>

\* badop(): a word whose opcode byte is no opcode
CodeBadOp == <<Ins("INVALID", 0, 0, 0)>>

\* rec(): CALL R0, rec; RET
CodeRec(self) == <<Ins("CALL", 0, 0, 0), self, Ins("RET", 0, 0, 0)>>

\* call_sink(a): ARG 0,R0; CALL_HOST R1, import 0; RET  (test_host_calls)
CodeCallSink == <<Ins("ARG", 0, 0, 0), Ins("CALL_HOST", 1, 0, 0), 0, Ins("RET", 0, 0, 0)>>

\* outer(a, b): ARG 0,R0; ARG 1,R1; CALL R0, f; RET
CodeOuter(f) ==
    <<Ins("ARG", 0, 0, 0), Ins("ARG", 1, 1, 0), Ins("CALL", 0, 0, 0), f, Ins("RET", 0, 0, 0)>>

\* fill(dst, val, n): MEM_FILL R0,R1,R2; MEM_SIZE R0  (falls off the end)
CodeFill == <<Ins("MEM_FILL", 0, 1, 2), Ins("MEM_SIZE", 0, 0, 0)>>

\* copy(dst, src, n): MEM_COPY R0,R1,R2; LOAD8 R0,[R0+0]; RET
CodeCopy == <<Ins("MEM_COPY", 0, 1, 2), Ins("LOAD8", 0, 0, 0), 0, Ins("RET", 0, 0, 0)>>

\* grow(n): MEM_GROW R0,R0; RET
CodeGrow == <<Ins("MEM_GROW", 0, 0, 0), Ins("RET", 0, 0, 0)>>

\* increment(): LDGLOBAL R0,g; LDI32 R1,1; ADD32 R0,R0,R1; STGLOBAL R0,g; RET  (test_globals)
CodeIncrement ==
    <<Ins("LDGLOBAL", 0, 0, 0), 0, Ins("LDI32", 1, 0, 0), 1, Ins("ADD32", 0, 0, 1),
      Ins("STGLOBAL", 0, 0, 0), 0, Ins("RET", 0, 0, 0)>>

\* stage(a, b): ARG 0,R0; ARG 1,R0; CALL R0, f; RET
CodeStage(f) ==
    <<Ins("ARG", 0, 0, 0), Ins("ARG", 1, 0, 0), Ins("CALL", 0, 0, 0), f, Ins("RET", 0, 0, 0)>>

\* ldglobal_bad(): LDGLOBAL R0, global g; RET
CodeLdGlobal(g) == <<Ins("LDGLOBAL", 0, 0, 0), g, Ins("RET", 0, 0, 0)>>

\* stglobal_bad(a): STGLOBAL R0, global g; RET
CodeStGlobal(g) == <<Ins("STGLOBAL", 0, 0, 0), g, Ins("RET", 0, 0, 0)>>

\* _init(): CALL R0, function 0 (the import, through vm_exec); LDI32 R1,1;
\* DIV32 R0,R1,R0; STGLOBAL R0,g; RET.  It traps when the host function returns 0.
CodeInit ==
    <<Ins("CALL", 0, 0, 0), 0, Ins("LDI32", 1, 0, 0), 1, Ins("DIV32", 0, 1, 0),
      Ins("STGLOBAL", 0, 0, 0), 0, Ins("RET", 0, 0, 0)>>

\* rune_export_t
Export(kind, idx, name) == [kind |-> kind, idx |-> idx, name |-> name]

\* the function bodies of a module with K imports; body i is function K + i
Bodies(K) ==
    <<BodyFunc(2, CodeDiv),
      BodyFunc(2, CodeStoreLoad),
      BodyFunc(2, CodeLoop),
      BodyFunc(2, CodeTrap),
      BodyFunc(2, CodeBadOp),
      BodyFunc(2, CodeRec(K + 5)),
      BodyFunc(2, CodeCallSink),
      BodyFunc(2, CodeOuter(K)),
      BodyFunc(2, CodeOuter(K + 1)),
      BodyFunc(3, CodeFill),
      BodyFunc(3, CodeCopy),
      BodyFunc(2, CodeGrow),
      BodyFunc(2, CodeIncrement),
      BodyFunc(2, CodeStage(K)),
      BodyFunc(2, CodeLdGlobal(1)),
      BodyFunc(2, CodeStGlobal(1)),
      BodyFunc(2, CodeInit)>>

\* the names the bodies are exported under, in the order of Bodies; the last
\* body is exported (as "_init") only by the module that declares it
BodyNames ==
    <<"div", "store_load", "loop", "trap", "badop", "rec", "call_sink", "outer_div",
      "outer_mem", "fill", "copy", "grow", "increment", "stage", "ldglobal_bad",
      "stglobal_bad">>

\* struct rune_module after rune_module_load of a module with K imports (K <= 1):
\* the imports occupy function indices [0..K), one page of memory growing to two,
\* one mutable i32 global, a data segment that fits, no _init
ModuleWith(K) ==
    LET funcs == Arr([i \in 1..K |-> ImportFunc(i - 1)] \o Bodies(K))
        exports == Arr([i \in 1..Len(BodyNames) |-> Export("FUNC", K + i - 1, BodyNames[i])]
                       \o [i \in 1..K |-> Export("FUNC", i - 1, "sink")]
                       \o <<Export("MEMORY", 0, "mem")>>)
    IN [imports |-> Arr([i \in 1..K |-> [module |-> "test", name |-> "sink"]]),
        import_count |-> K,
        funcs |-> funcs,
        func_count |-> Count(funcs),
        globals |-> Arr(<<[mutable |-> TRUE, value |-> rune_i32(0)]>>),
        global_count |-> 1,
        exports |-> exports,
        export_count |-> Count(exports),
        has_memory |-> TRUE,
        mem_initial_pages |-> 1,
        mem_max_pages |-> 2,
        data_segs |-> Arr(<<[offset |-> 1, data |-> <<5>>, size |-> 1]>>),
        data_seg_count |-> 1,
        init_func |-> -1]

\* a module with the import test::sink
ModPlain == ModuleWith(1)

\* the same module exporting its last body as "_init" (the first export)
ModWithInit ==
    [ModPlain EXCEPT !.exports = Arr(<<Export("FUNC", ModPlain.func_count - 1, "_init")>> \o
                                     [i \in 1..ModPlain.export_count |->
                                         ModPlain.exports[i - 1]]),
                     !.export_count = @ + 1,
                     !.init_func = ModPlain.func_count - 1]

\* a module without imports
ModNoImports == ModuleWith(0)

\* a module without imports whose data segment ends beyond the initial page
ModBadData ==
    [ModNoImports EXCEPT !.data_segs =
        Arr(<<[offset |-> RUNE_PAGE_SIZE, data |-> <<5>>, size |-> 1]>>)]

\* a module without imports, without a memory section and without data segments
ModNoMemory ==
    [ModNoImports EXCEPT !.has_memory = FALSE, !.mem_initial_pages = 0,
                         !.mem_max_pages = 0, !.data_segs = Arr(<<>>),
                         !.data_seg_count = 0]

\* a module without imports whose memory section gives no maximum
ModNoMax == [ModNoImports EXCEPT !.mem_max_pages = 0]

\* a module without imports with two data segments: the first fits, the second
\* has offset 0xFFFFFFFF and size 2, so that its 32-bit end is 1
ModWrapData ==
    [ModNoImports EXCEPT !.data_segs =
        Arr(<<[offset |-> 1, data |-> <<5>>, size |-> 1],
              [offset |-> -1, data |-> <<6, 7>>, size |-> 2]>>),
                         !.data_seg_count = 2]

\* a module without imports and without a memory section, with a data segment
ModNoMemoryData ==
    [ModNoMemory EXCEPT !.data_segs = Arr(<<[offset |-> 1, data |-> <<5>>, size |-> 1]>>),
                        !.data_seg_count = 1]

\* the division and remainder opcodes
DivOps == <<"DIV32", "DIVU32", "REM32", "REMU32", "DIV64", "DIVU64", "REM64">>

\* op(a, b): <op> R2,R0,R1; MOV R0,R2; RET
CodeArith(op) == <<Ins(op, 2, 0, 1), Ins("MOV", 0, 2, 0), Ins("RET", 0, 0, 0)>>

\* a module of one exported function per division opcode (function i - 1 is
\* DivOps[i], exported under the opcode's name), without imports, memory or
\* globals
ModArith ==
    LET funcs == Arr([i \in 1..Len(DivOps) |-> BodyFunc(3, CodeArith(DivOps[i]))])
        exports == Arr([i \in 1..Len(DivOps) |-> Export("FUNC", i - 1, DivOps[i])])
    IN [imports |-> Arr(<<>>),
        import_count |-> 0,
        funcs |-> funcs,
        func_count |-> Count(funcs),
        globals |-> Arr(<<>>),
        global_count |-> 0,
        exports |-> exports,
        export_count |-> Count(exports),
        has_memory |-> FALSE,
        mem_initial_pages |-> 0,
        mem_max_pages |-> 0,
        data_segs |-> Arr(<<>>),
        data_seg_count |-> 0,
        init_func |-> -1]

\* the store opcodes and the load opcodes of the integer widths
StoreOps == <<"STORE8", "STORE16", "STORE32", "STORE64">>

LoadOps == <<"LOAD8", "LOAD8S", "LOAD16", "LOAD16S", "LOAD32", "LOAD64">>

\* store(a, v): <op> R1,[R0+imm]; RET
CodeStore(op, imm) == <<Ins(op, 1, 0, 0), imm, Ins("RET", 0, 0, 0)>>

\* load(a): <op> R0,[R0+imm]; RET
CodeLoad(op, imm) == <<Ins(op, 0, 0, 0), imm, Ins("RET", 0, 0, 0)>>

\* the immediate of the exports "STORE32+" and "LOAD8+"
MemImm == 2

(* ------------------------------ assembler ----------------------------- *)

\* buf_push_u32 / buf_patch_u32 of v and the interpreter's read of the word: the
\* four little-endian bytes, read back as an int32_t
WordOf(v) == FromBytes(ByteOf(v, 0), ByteOf(v, 1), ByteOf(v, 2), ByteOf(v, 3))

\* rune_asm_emit: appends the instruction word to the code buffer of the
\* current function (a sequence of words)
rune_asm_emit(buf, op, dst, s1, s2) == Append(buf, Ins(op, dst, s1, s2))

\* rune_asm_emit_i: the instruction word, then the immediate
rune_asm_emit_i(buf, op, dst, s1, s2, imm) ==
    Append(rune_asm_emit(buf, op, dst, s1, s2), WordOf(imm))

\* rune_asm_label: the index of the next word
rune_asm_label(buf) == Len(buf)

\* rune_asm_patch_jump taking the offset from the immediate's own word
rune_asm_patch_jump_from_imm(buf, patch_word, target_word) ==
    [buf EXCEPT ![patch_word + 2] = WordOf(target_word - (patch_word + 1))]

\* rune_asm_patch_jump: overwrites word patch_word + 1 (element patch_word + 2
\* of the sequence) with target_word - (patch_word + 2)
rune_asm_patch_jump(buf, patch_word, target_word) ==
    [buf EXCEPT ![patch_word + 2] = WordOf(target_word - (patch_word + 2))]

\* the branch opcodes
JumpOps == {"JMP", "JZ", "JNZ", "JLT", "JLE"}

\* the number of words of the body of ModJump
JumpBodyWords == 5

\* jump(a, b), assembled as the tests assemble a branch: NOPs up to word
\* patch_word, there the branch `op R0,R1` with immediate 0, NOPs, a final RET,
\* and then rune_asm_patch_jump(patch_word, target_word)
AsmJump(op, patch_word, target_word) ==
    LET nops(n) == [i \in 1..n |-> Ins("NOP", 0, 0, 0)]
        b0 == nops(patch_word)
        at == rune_asm_label(b0)
        b1 == rune_asm_emit_i(b0, op, 0, 0, 1, 0)
        b2 == b1 \o nops(JumpBodyWords - 1 - Len(b1))
        b3 == rune_asm_emit(b2, "RET", 0, 0, 0)
    IN rune_asm_patch_jump(b3, at, target_word)

\* a module of the one export "jump" with that body, without imports, memory
\* or globals
ModJump(op, patch_word, target_word) ==
    [imports |-> Arr(<<>>),
     import_count |-> 0,
     funcs |-> Arr(<<BodyFunc(2, AsmJump(op, patch_word, target_word))>>),
     func_count |-> 1,
     globals |-> Arr(<<>>),
     global_count |-> 0,
     exports |-> Arr(<<Export("FUNC", 0, "jump")>>),
     export_count |-> 1,
     has_memory |-> FALSE,
     mem_initial_pages |-> 0,
     mem_max_pages |-> 0,
     data_segs |-> Arr(<<>>),
     data_seg_count |-> 0,
     init_func |-> -1]

\* the export names of ModMem, in the order of its functions
MemNames == StoreOps \o LoadOps \o <<"STORE32+", "LOAD8+">>

\* a module of one exported function per store and load opcode with immediate 0
\* (exported under the opcode's name), and of a STORE32 and a LOAD8 with
\* immediate MemImm; three pages of memory, no imports, globals or data segments
ModMem ==
    LET funcs == Arr([i \in 1..Len(StoreOps) |-> BodyFunc(2, CodeStore(StoreOps[i], 0))]
                     \o [i \in 1..Len(LoadOps) |-> BodyFunc(2, CodeLoad(LoadOps[i], 0))]
                     \o <<BodyFunc(2, CodeStore("STORE32", MemImm)),
                          BodyFunc(2, CodeLoad("LOAD8", MemImm))>>)
        exports == Arr([i \in 1..Len(MemNames) |-> Export("FUNC", i - 1, MemNames[i])])
    IN [imports |-> Arr(<<>>),
        import_count |-> 0,
        funcs |-> funcs,
        func_count |-> Count(funcs),
        globals |-> Arr(<<>>),
        global_count |-> 0,
        exports |-> exports,
        export_count |-> Count(exports),
        has_memory |-> TRUE,
        mem_initial_pages |-> 3,
        mem_max_pages |-> 3,
        data_segs |-> Arr(<<>>),
        data_seg_count |-> 0,
        init_func |-> -1]

(* --------------------------- module loading --------------------------- *)

\* the numbers of the enumerators of rune_sect_id_t, rune_export_kind_t and
\* rune_type_t.  rune_bytecode.h, which declares them, gives the numbers; the
\* loader and the assembler use the names only, so that nothing below depends
\* on more than the numbers of one enumeration being distinct bytes.  0 and 9
\* stand for bytes that are no section ID
Enum(name) ==
    CASE name = "RUNE_SECT_TYPE" -> 1
      [] name = "RUNE_SECT_IMPORT" -> 2
      [] name = "RUNE_SECT_FUNC" -> 3
      [] name = "RUNE_SECT_MEMORY" -> 4
      [] name = "RUNE_SECT_GLOBAL" -> 5
      [] name = "RUNE_SECT_EXPORT" -> 6
      [] name = "RUNE_SECT_CODE" -> 7
      [] name = "RUNE_SECT_DATA" -> 8
      [] name = "RUNE_EXPORT_FUNC" -> 0
      [] name = "RUNE_EXPORT_GLOBAL" -> 1
      [] name = "RUNE_EXPORT_MEMORY" -> 2
      [] name = "RUNE_TYPE_I32" -> 127
      [] name = "RUNE_TYPE_I64" -> 126

\* the limit of the TYPE, IMPORT and FUNC counts
RUNE_MAX_FUNCS == 6

\* the limit of the GLOBAL count
RUNE_MAX_GLOBALS == 4

\* F(e), with e evaluated once, before F
Bind(e, F(_)) == CHOOSE y \in {F(x) : x \in {e}} : TRUE

\* the uint32_t u (a negative number stands for one of 2^31 or more) exceeds lim
Above(u, lim) == u < 0 \/ u > lim

\* read_u8 on the reader r = [pos, error] over the bytes raw: [v, r]
read_u8(raw, r) ==
    IF r.pos >= Len(raw) THEN [v |-> 0, r |-> [r EXCEPT !.error = TRUE]]
    ELSE [v |-> raw[r.pos + 1], r |-> [r EXCEPT !.pos = @ + 1]]

\* read_u16 (n = 2) and read_u32 (n = 4): n times read_u8, little-endian; a
\* uint32_t is kept as the int32_t of the same bits
read_uint(raw, r, n) ==
    LET RECURSIVE go(_, _, _)
        go(k, rr, bytes) ==
            IF k = n THEN [v |-> bytes, r |-> rr]
            ELSE Bind(read_u8(raw, rr), LAMBDA b : go(k + 1, b.r, Append(bytes, b.v)))
    IN Bind(go(0, r, <<>>), LAMBDA got :
           [v |-> IF n = 2 THEN FromBytes16(got.v[1], got.v[2])
                  ELSE FromBytes(got.v[1], got.v[2], got.v[3], got.v[4]),
            r |-> got.r])

\* read_bytes: [ok, v, r]; ok is FALSE for NULL
read_bytes(raw, r, n) ==
    IF n < 0 \/ r.pos + n > Len(raw)
    THEN [ok |-> FALSE, v |-> <<>>, r |-> [r EXCEPT !.error = TRUE]]
    ELSE [ok |-> TRUE, v |-> SubSeq(raw, r.pos + 1, r.pos + n), r |-> [r EXCEPT !.pos = @ + n]]

\* read_string(r, 1): [ok, v, r]
read_string(raw, r) ==
    Bind(read_u8(raw, r), LAMBDA n :
        IF n.r.error THEN [ok |-> FALSE, v |-> <<>>, r |-> n.r]
        ELSE read_bytes(raw, n.r, n.v))

\* a calloc'ed struct rune_module with init_func = -1; arrays are sequences,
\* element i of the C array being element i + 1
NewModule ==
    [types |-> <<>>, type_count |-> 0, imports |-> <<>>, import_count |-> 0,
     funcs |-> <<>>, func_count |-> 0, globals |-> <<>>, global_count |-> 0,
     exports |-> <<>>, export_count |-> 0, mem_initial_pages |-> 0,
     mem_max_pages |-> 0, has_memory |-> FALSE, data_segs |-> <<>>,
     data_seg_count |-> 0, init_func |-> -1]

\* what a section parser leaves: the module, the reader, the code it returns and
\* whether it wrote outside an array (undefined behaviour)
Parsed(m, r, err) == [m |-> m, r |-> r, err |-> err, ub |-> FALSE]

\* parse_type_section
parse_type_section(m, raw, r0) ==
    LET RECURSIVE bytes(_, _, _)
        bytes(k, r, acc) ==
            IF k = 0 THEN [v |-> acc, r |-> r]
            ELSE Bind(read_u8(raw, r), LAMBDA b : bytes(k - 1, b.r, Append(acc, b.v)))
        RECURSIVE loop(_, _, _, _)
        loop(i, count, mm, r) ==
            IF i >= count THEN Parsed(mm, r, RUNE_OK)
            ELSE Bind(read_u8(raw, r), LAMBDA pc :
                 Bind(read_u8(raw, pc.r), LAMBDA rc :
                 IF rc.r.error \/ pc.v > RUNE_MAX_PARAMS \/ rc.v > 1
                 THEN Parsed(mm, rc.r, RUNE_ERR_BADMODULE)
                 ELSE Bind(bytes(pc.v, rc.r, <<>>), LAMBDA ps :
                      Bind(bytes(rc.v, ps.r, <<>>), LAMBDA rs :
                      IF rs.r.error THEN Parsed(mm, rs.r, RUNE_ERR_BADMODULE)
                      ELSE Bind([mm EXCEPT !.types[i + 1] =
                                     [param_count |-> pc.v, return_count |-> rc.v,
                                      param_types |-> ps.v, return_types |-> rs.v]],
                                LAMBDA m2 : loop(i + 1, count, m2, rs.r))))))
        zero == [param_count |-> 0, return_count |-> 0, param_types |-> <<>>,
                 return_types |-> <<>>]
    IN Bind(read_uint(raw, r0, 4), LAMBDA count :
           IF count.r.error \/ Above(count.v, RUNE_MAX_FUNCS)
           THEN Parsed(m, count.r, RUNE_ERR_BADMODULE)
           ELSE Bind([m EXCEPT !.types = [i \in 1..count.v |-> zero],
                               !.type_count = count.v],
                     LAMBDA m1 : loop(0, count.v, m1, count.r)))

\* parse_import_section
parse_import_section(m, raw, r0) ==
    LET RECURSIVE loop(_, _, _, _)
        loop(i, count, mm, r) ==
            IF i >= count THEN Parsed(mm, r, RUNE_OK)
            ELSE Bind(read_string(raw, r), LAMBDA mo :
                 Bind(read_string(raw, mo.r), LAMBDA na :
                 Bind(read_uint(raw, na.r, 2), LAMBDA ty :
                 IF ty.r.error THEN Parsed(mm, ty.r, RUNE_ERR_BADMODULE)
                 ELSE Bind([mm EXCEPT !.imports[i + 1] =
                                [module |-> mo.v, name |-> na.v, type_idx |-> ty.v]],
                           LAMBDA m2 : loop(i + 1, count, m2, ty.r)))))
        zero == [module |-> <<>>, name |-> <<>>, type_idx |-> 0]
    IN Bind(read_uint(raw, r0, 4), LAMBDA count :
           IF count.r.error \/ Above(count.v, RUNE_MAX_FUNCS)
           THEN Parsed(m, count.r, RUNE_ERR_BADMODULE)
           ELSE Bind([m EXCEPT !.imports = [i \in 1..count.v |-> zero],
                               !.import_count = count.v],
                     LAMBDA m1 : loop(0, count.v, m1, count.r)))

\* a calloc'ed rune_func_t
ZeroFunc ==
    [is_import |-> FALSE, import_idx |-> 0, type_idx |-> 0, reg_count |-> 0,
     local_count |-> 0, code |-> <<>>, code_size |-> 0]

\* parse_func_section.  total is a uint32_t sum; an element written at index
\* total or beyond is outside the calloc'ed array
parse_func_section(m, raw, r0) ==
    LET RECURSIVE loop(_, _, _, _)
        loop(i, body_count, mm, r) ==
            IF i >= body_count /\ body_count >= 0 THEN Parsed(mm, r, RUNE_OK)
            ELSE Bind(read_uint(raw, r, 2), LAMBDA ty :
                 Bind(read_u8(raw, ty.r), LAMBDA rg :
                 Bind(read_u8(raw, rg.r), LAMBDA lc :
                 IF m.import_count + i + 1 > mm.func_count
                 THEN [Parsed(mm, lc.r, RUNE_ERR_BADMODULE) EXCEPT !.ub = TRUE]
                 ELSE IF lc.r.error THEN Parsed(mm, lc.r, RUNE_ERR_BADMODULE)
                 ELSE Bind([mm EXCEPT !.funcs[m.import_count + i + 1].type_idx = ty.v,
                                      !.funcs[m.import_count + i + 1].reg_count = rg.v,
                                      !.funcs[m.import_count + i + 1].local_count = lc.v],
                           LAMBDA m2 : loop(i + 1, body_count, m2, lc.r)))))
        Marked(total) ==
            [i \in 1..total |->
                IF i <= m.import_count
                THEN [ZeroFunc EXCEPT !.is_import = TRUE, !.import_idx = i - 1,
                                      !.type_idx = m.imports[i].type_idx]
                ELSE ZeroFunc]
    IN Bind(read_uint(raw, r0, 4), LAMBDA body_count :
       Bind(Add32(m.import_count, body_count.v), LAMBDA total :
           IF body_count.r.error THEN Parsed(m, body_count.r, RUNE_ERR_BADMODULE)
           ELSE IF Above(total, RUNE_MAX_FUNCS)
           THEN Parsed(m, body_count.r, RUNE_ERR_BADMODULE)
           ELSE IF total < m.import_count
           THEN [Parsed(m, body_count.r, RUNE_ERR_BADMODULE) EXCEPT !.ub = TRUE]
           ELSE Bind([m EXCEPT !.funcs = Marked(total), !.func_count = total],
                     LAMBDA m1 : loop(0, body_count.v, m1, body_count.r))))

\* parse_memory_section
parse_memory_section(m, raw, r0) ==
    Bind(read_uint(raw, r0, 2), LAMBDA initial :
    Bind(read_uint(raw, initial.r, 2), LAMBDA max :
        IF max.r.error
        THEN Parsed([m EXCEPT !.mem_initial_pages = initial.v, !.mem_max_pages = max.v],
                    max.r, RUNE_ERR_BADMODULE)
        ELSE Parsed([m EXCEPT !.mem_initial_pages = initial.v, !.mem_max_pages = max.v,
                              !.has_memory = TRUE],
                    max.r, RUNE_OK)))

\* parse_global_section; globals of the types f32 and f64 are not modelled
parse_global_section(m, raw, r0) ==
    LET RECURSIVE loop(_, _, _, _)
        loop(i, count, mm, r) ==
            IF i >= count THEN Parsed(mm, r, RUNE_OK)
            ELSE Bind(read_u8(raw, r), LAMBDA ty :
                 Bind(read_u8(raw, ty.r), LAMBDA mu :
                 Bind(read_uint(raw, mu.r, 4), LAMBDA lo :
                 Bind(read_uint(raw, lo.r, 4), LAMBDA hi :
                 IF hi.r.error THEN Parsed(mm, hi.r, RUNE_ERR_BADMODULE)
                 ELSE IF ty.v \notin {Enum("RUNE_TYPE_I32"), Enum("RUNE_TYPE_I64")}
                 THEN Parsed([mm EXCEPT !.globals[i + 1].type = ty.v,
                                        !.globals[i + 1].mutable = (mu.v # 0)],
                             hi.r, RUNE_ERR_BADMODULE)
                 ELSE Bind([mm EXCEPT !.globals[i + 1] =
                                [type |-> ty.v, mutable |-> (mu.v # 0),
                                 value |-> IF ty.v = Enum("RUNE_TYPE_I32")
                                           THEN rune_i32(lo.v)
                                           ELSE I64OfWords(lo.v, hi.v)]],
                           LAMBDA m2 : loop(i + 1, count, m2, hi.r))))))
        zero == [type |-> 0, mutable |-> FALSE, value |-> ZeroVal]
    IN Bind(read_uint(raw, r0, 4), LAMBDA count :
           IF count.r.error \/ Above(count.v, RUNE_MAX_GLOBALS)
           THEN Parsed(m, count.r, RUNE_ERR_BADMODULE)
           ELSE Bind([m EXCEPT !.globals = [i \in 1..count.v |-> zero],
                               !.global_count = count.v],
                     LAMBDA m1 : loop(0, count.v, m1, count.r)))

\* parse_export_section
parse_export_section(m, raw, r0) ==
    LET RECURSIVE loop(_, _, _, _)
        loop(i, count, mm, r) ==
            IF i >= count THEN Parsed(mm, r, RUNE_OK)
            ELSE Bind(read_u8(raw, r), LAMBDA ki :
                 Bind(read_uint(raw, ki.r, 4), LAMBDA ix :
                 Bind(read_string(raw, ix.r), LAMBDA na :
                 IF na.r.error \/ ~na.ok THEN Parsed(mm, na.r, RUNE_ERR_BADMODULE)
                 ELSE Bind([mm EXCEPT !.exports[i + 1] =
                                [kind |-> ki.v, idx |-> ix.v, name |-> na.v]],
                           LAMBDA m2 : loop(i + 1, count, m2, na.r)))))
        zero == [kind |-> 0, idx |-> 0, name |-> <<>>]
    IN Bind(read_uint(raw, r0, 4), LAMBDA count :
           IF count.r.error \/ Above(count.v, 65536)
           THEN Parsed(m, count.r, RUNE_ERR_BADMODULE)
           ELSE Bind([m EXCEPT !.exports = [i \in 1..count.v |-> zero],
                               !.export_count = count.v],
                     LAMBDA m1 : loop(0, count.v, m1, count.r)))

\* parse_code_section.  expected is a uint32_t difference; body i belongs to
\* funcs[import_count + i], which is outside the array when the FUNC section did
\* not provide for it
parse_code_section(m, raw, r0) ==
    LET RECURSIVE loop(_, _, _, _)
        loop(i, count, mm, r) ==
            IF i >= count /\ count >= 0 THEN Parsed(mm, r, RUNE_OK)
            ELSE Bind(read_uint(raw, r, 4), LAMBDA body_size :
                 IF body_size.r.error \/ body_size.v % 4 # 0
                 THEN Parsed(mm, body_size.r, RUNE_ERR_BADMODULE)
                 ELSE Bind(read_bytes(raw, body_size.r, body_size.v), LAMBDA code :
                      IF ~code.ok THEN Parsed(mm, code.r, RUNE_ERR_BADMODULE)
                      ELSE IF m.import_count + i + 1 > m.func_count
                      THEN [Parsed(mm, code.r, RUNE_ERR_BADMODULE) EXCEPT !.ub = TRUE]
                      ELSE Bind([mm EXCEPT !.funcs[m.import_count + i + 1].code = code.v,
                                           !.funcs[m.import_count + i + 1].code_size =
                                               body_size.v],
                                LAMBDA m2 : loop(i + 1, count, m2, code.r))))
    IN Bind(read_uint(raw, r0, 4), LAMBDA count :
           IF count.r.error \/ count.v # m.func_count - m.import_count
           THEN Parsed(m, count.r, RUNE_ERR_BADMODULE)
           ELSE loop(0, count.v, m, count.r))

\* parse_data_section
parse_data_section(m, raw, r0) ==
    LET RECURSIVE loop(_, _, _, _)
        loop(i, count, mm, r) ==
            IF i >= count THEN Parsed(mm, r, RUNE_OK)
            ELSE Bind(read_u8(raw, r), LAMBDA mi :
                 Bind(read_uint(raw, mi.r, 4), LAMBDA of :
                 Bind(read_uint(raw, of.r, 4), LAMBDA sz :
                 Bind(read_bytes(raw, sz.r, sz.v), LAMBDA da :
                 IF da.r.error \/ ~da.ok THEN Parsed(mm, da.r, RUNE_ERR_BADMODULE)
                 ELSE Bind([mm EXCEPT !.data_segs[i + 1] =
                                [offset |-> of.v, data |-> da.v, size |-> sz.v]],
                           LAMBDA m2 : loop(i + 1, count, m2, da.r))))))
        zero == [offset |-> 0, data |-> <<>>, size |-> 0]
    IN Bind(read_uint(raw, r0, 4), LAMBDA count :
           IF count.r.error \/ Above(count.v, 4096)
           THEN Parsed(m, count.r, RUNE_ERR_BADMODULE)
           ELSE Bind([m EXCEPT !.data_segs = [i \in 1..count.v |-> zero],
                               !.data_seg_count = count.v],
                     LAMBDA m1 : loop(0, count.v, m1, count.r)))

\* rune_module_load, the switch of the section loop: the parser of the section
\* sect_id; an unknown ID is skipped with read_bytes
ParseSection(m, raw, r, sect_id, sect_size) ==
    CASE sect_id = Enum("RUNE_SECT_TYPE") -> parse_type_section(m, raw, r)
      [] sect_id = Enum("RUNE_SECT_IMPORT") -> parse_import_section(m, raw, r)
      [] sect_id = Enum("RUNE_SECT_FUNC") -> parse_func_section(m, raw, r)
      [] sect_id = Enum("RUNE_SECT_MEMORY") -> parse_memory_section(m, raw, r)
      [] sect_id = Enum("RUNE_SECT_GLOBAL") -> parse_global_section(m, raw, r)
      [] sect_id = Enum("RUNE_SECT_EXPORT") -> parse_export_section(m, raw, r)
      [] sect_id = Enum("RUNE_SECT_CODE") -> parse_code_section(m, raw, r)
      [] sect_id = Enum("RUNE_SECT_DATA") -> parse_data_section(m, raw, r)
      [] OTHER -> Parsed(m, read_bytes(raw, r, sect_size).r, RUNE_OK)

\* rune_module_load, one turn of the section loop on the load l = [raw, r, err,
\* mod, ub, at, ...]: the section header, the parser of the section, and the
\* skip of what the parser left of the declared size
LoadSection(l) ==
    Bind(read_u8(l.raw, l.r), LAMBDA sect_id :
    Bind(read_uint(l.raw, sect_id.r, 4), LAMBDA sect_size :
        IF sect_size.r.error THEN [l EXCEPT !.r = sect_size.r, !.err = RUNE_ERR_BADMODULE]
        ELSE Bind(ParseSection(l.mod, l.raw, sect_size.r, sect_id.v, sect_size.v),
                  LAMBDA p :
                 IF p.err # RUNE_OK
                 THEN [l EXCEPT !.r = p.r, !.err = p.err, !.mod = p.m, !.ub = p.ub]
                 ELSE IF Above(sect_size.v, p.r.pos - sect_size.r.pos)
                 THEN [l EXCEPT !.r = read_bytes(l.raw, p.r,
                                                 sect_size.v
                                                     - (p.r.pos - sect_size.r.pos)).r,
                                !.mod = p.m, !.ub = p.ub]
                 ELSE [l EXCEPT !.r = p.r, !.mod = p.m, !.ub = p.ub])))

\* rune_module_load after the section loop: the module is rejected, or the
\* exports are scanned for _init (the name is given by its bytes) and the module
\* is returned
LoadFinish(l, init_name) ==
    LET hits == {i \in 1..l.mod.export_count :
                    /\ l.mod.exports[i].kind = Enum("RUNE_EXPORT_FUNC")
                    /\ l.mod.exports[i].name = init_name}
        first == CHOOSE i \in hits : \A j \in hits : i <= j
    IN IF l.err # RUNE_OK \/ l.r.error
       THEN [l EXCEPT !.at = "rejected",
                      !.err = IF l.err # RUNE_OK THEN l.err ELSE RUNE_ERR_BADMODULE,
                      !.mod = NewModule]
       ELSE [l EXCEPT !.at = "loaded",
                      !.mod.init_func = (IF hits = {} THEN 0 - 1
                                         ELSE l.mod.exports[first].idx)]

(* ----------------------- assembling a container ----------------------- *)

\* buf_push_u8, buf_push_u16, buf_push_u32: the n bytes of v, little-endian
Push(v, n) == [k \in 1..n |-> ByteOf(v, k - 1)]

\* buf_push_str8: the length byte and the bytes of the string
buf_push_str8(s) == <<Len(s)>> \o s

\* the bytes of all elements of the sequence s under the encoder Enc(_)
Flat(s, Enc(_)) ==
    LET RECURSIVE go(_)
        go(i) == IF i > Len(s) THEN <<>> ELSE Enc(s[i]) \o go(i + 1)
    IN go(1)

\* rune_asm_new: a calloc'ed rune_asm_t
rune_asm_new ==
    [types |-> <<>>, imports |-> <<>>, funcs |-> <<>>, globals |-> <<>>,
     exports |-> <<>>, data_segs |-> <<>>, has_memory |-> FALSE,
     mem_initial |-> 0, mem_max |-> 0]

\* rune_asm_type: [a, ret]
rune_asm_type(a, params, rets) ==
    [a |-> [a EXCEPT !.types = Append(@, [param_count |-> Len(params),
                                          return_count |-> Len(rets),
                                          params |-> params, rets |-> rets])],
     ret |-> Len(a.types)]

\* rune_asm_import: [a, ret]; the function index returned is the number of
\* functions, imports and bodies, declared so far
rune_asm_import(a, module, name, type_idx) ==
    [a |-> [a EXCEPT !.imports = Append(@, [module |-> module, name |-> name,
                                            type_idx |-> type_idx]),
                     !.funcs = Append(@, [ZeroFunc EXCEPT !.type_idx = type_idx,
                                                          !.is_import = TRUE,
                                                          !.import_idx = Len(a.imports)])],
     ret |-> Len(a.funcs)]

\* rune_asm_memory
rune_asm_memory(a, initial, max) ==
    [a EXCEPT !.has_memory = TRUE, !.mem_initial = initial,
              !.mem_max = IF max # 0 THEN max ELSE initial]

\* rune_asm_func: [a, ret]
rune_asm_func(a, type_idx, reg_count, local_count) ==
    [a |-> [a EXCEPT !.funcs = Append(@, [ZeroFunc EXCEPT !.type_idx = type_idx,
                                                          !.reg_count = reg_count,
                                                          !.local_count = local_count])],
     ret |-> Len(a.funcs)]

\* rune_asm_export_func
rune_asm_export_func(a, func_idx, name) ==
    [a EXCEPT !.exports = Append(@, [kind |-> Enum("RUNE_EXPORT_FUNC"),
                                     idx |-> func_idx, name |-> name])]

\* rune_asm_export_memory
rune_asm_export_memory(a, name) ==
    [a EXCEPT !.exports = Append(@, [kind |-> Enum("RUNE_EXPORT_MEMORY"),
                                     idx |-> 0, name |-> name])]

\* rune_asm_begin_code(a, func_idx), the emits of the bytes code, rune_asm_end_code
AsmBody(a, func_idx, code) ==
    [a EXCEPT !.funcs[func_idx + 1].code = code,
              !.funcs[func_idx + 1].code_size = Len(code)]

\* the functions of a that are bodies, in the order of their indices
BodyFuncs(a) == SelectSeq(a.funcs, LAMBDA f : ~f.is_import)

\* rune_asm_finalize: the body of the section id as it is written to sec
SectionBody(a, id) ==
    LET EncType(t) == <<t.param_count, t.return_count>> \o t.params \o t.rets
        EncImport(im) == buf_push_str8(im.module) \o buf_push_str8(im.name)
                         \o Push(im.type_idx, 2)
        EncFunc(f) == Push(f.type_idx, 2) \o <<f.reg_count, f.local_count>>
        EncGlobal(g) == <<g.type, IF g.mutable THEN 1 ELSE 0>>
                        \o Push(g.init.v, 4) \o Push(HiWord(g.init), 4)
        EncExport(ex) == <<ex.kind>> \o Push(ex.idx, 4) \o buf_push_str8(ex.name)
        EncCode(f) == Push(Len(f.code), 4) \o f.code
        EncData(d) == <<0>> \o Push(d.offset, 4) \o Push(d.size, 4) \o d.data
    IN CASE id = Enum("RUNE_SECT_TYPE") -> Push(Len(a.types), 4) \o Flat(a.types, EncType)
         [] id = Enum("RUNE_SECT_IMPORT") ->
                Push(Len(a.imports), 4) \o Flat(a.imports, EncImport)
         [] id = Enum("RUNE_SECT_FUNC") ->
                Push(Len(BodyFuncs(a)), 4) \o Flat(BodyFuncs(a), EncFunc)
         [] id = Enum("RUNE_SECT_MEMORY") -> Push(a.mem_initial, 2) \o Push(a.mem_max, 2)
         [] id = Enum("RUNE_SECT_GLOBAL") ->
                Push(Len(a.globals), 4) \o Flat(a.globals, EncGlobal)
         [] id = Enum("RUNE_SECT_EXPORT") ->
                Push(Len(a.exports), 4) \o Flat(a.exports, EncExport)
         [] id = Enum("RUNE_SECT_CODE") ->
                Push(Len(BodyFuncs(a)), 4) \o Flat(BodyFuncs(a), EncCode)
         [] id = Enum("RUNE_SECT_DATA") ->
                Push(Len(a.data_segs), 4) \o Flat(a.data_segs, EncData)

\* emit_section with the declared size given apart from the body
emit_section(id, size, body) == <<id>> \o Push(size, 4) \o body

\* rune_asm_finalize: the sections it emits for a, in its order
FinalizeSections(a) ==
    SelectSeq(<<Enum("RUNE_SECT_TYPE"), Enum("RUNE_SECT_IMPORT"), Enum("RUNE_SECT_FUNC"),
                Enum("RUNE_SECT_MEMORY"), Enum("RUNE_SECT_GLOBAL"),
                Enum("RUNE_SECT_EXPORT"), Enum("RUNE_SECT_CODE"), Enum("RUNE_SECT_DATA")>>,
              LAMBDA id :
                CASE id = Enum("RUNE_SECT_TYPE") -> Len(a.types) # 0
                  [] id = Enum("RUNE_SECT_IMPORT") -> Len(a.imports) # 0
                  [] id = Enum("RUNE_SECT_FUNC") -> Len(BodyFuncs(a)) # 0
                  [] id = Enum("RUNE_SECT_MEMORY") -> a.has_memory
                  [] id = Enum("RUNE_SECT_GLOBAL") -> Len(a.globals) # 0
                  [] id = Enum("RUNE_SECT_EXPORT") -> Len(a.exports) # 0
                  [] id = Enum("RUNE_SECT_CODE") -> Len(BodyFuncs(a)) # 0
                  [] id = Enum("RUNE_SECT_DATA") -> Len(a.data_segs) # 0)

\* rune_asm_finalize: the bytes that follow the file header
rune_asm_finalize(a) ==
    LET Sect(id) == emit_section(id, Len(SectionBody(a, id)), SectionBody(a, id))
    IN Flat(FinalizeSections(a), Sect)

(* ------------------------------ VM state ------------------------------ *)

VARIABLES
    mod,            \* vm->mod: the module (struct rune_module) the VM was created for
    cfg,            \* vm->cfg: [stack_size, memory_limit, fuel_limit]
    host_fns,       \* vm->host_fns[0..host_fn_count): the sequence of registrations
    memory,         \* vm->memory: the calloc'ed buffer, <<>> while NULL
    memory_pages,   \* vm->memory_pages
    memory_max,     \* vm->memory_max
    globals,        \* vm->globals: <<>> while NULL
    frames,         \* vm->frames[0..stack_size): [func_idx, pc, regs], regs <<>> while NULL
    frame_count,    \* vm->frame_count
    arg_buf,        \* vm->arg_buf
    arg_count,      \* vm->arg_count
    error_buf,      \* vm->error_buf
    fuel_used,      \* vm->fuel_used
    initialized,    \* vm->initialized
    cstack,         \* the C call stack: running vm_exec activations and host callbacks
    last,           \* what the last completed host API call returned to the host
    access,         \* the linear-memory offsets the last step read or wrote
    dispatched,     \* instructions dispatched: [call: in this top-level vm_call or
                    \*   vm_init, fuel: under metering since the counter was reset]
    ops,            \* host API calls made so far
    other,          \* a second VM of the same module, while the host is not
                    \*   operating it: [vm: its value, id: its number, cmp: the
                    \*   call the host makes on both VMs to compare them]
    loading         \* a rune_module_load under way or done: [raw: the bytes after
                    \*   the file header, r: the reader, err, mod: the module being
                    \*   built, ub, at: where the call is, src: what raw was made of]

vars == <<mod, cfg, host_fns, memory, memory_pages, memory_max, globals, frames,
          frame_count, arg_buf, arg_count, error_buf, fuel_used, initialized,
          cstack, last, access, dispatched, ops, other, loading>>

\* the VM as one value, for the operators that model the C functions, with the
\* module vm->mod points to; ub is set by an operator when the statement it
\* models has undefined behaviour in C
Cur ==
    [mod |-> mod, cfg |-> cfg, host_fns |-> host_fns, memory |-> memory,
     memory_pages |-> memory_pages, memory_max |-> memory_max, globals |-> globals,
     frames |-> frames, frame_count |-> frame_count, arg_buf |-> arg_buf,
     arg_count |-> arg_count, error_buf |-> error_buf, fuel_used |-> fuel_used,
     initialized |-> initialized, cstack |-> cstack, last |-> last,
     access |-> {}, dispatched |-> dispatched, ub |-> FALSE]

\* the VM value s becomes the VM the host operates
Load(s) ==
    /\ cfg' = s.cfg
    /\ host_fns' = s.host_fns
    /\ memory' = s.memory
    /\ memory_pages' = s.memory_pages
    /\ memory_max' = s.memory_max
    /\ globals' = s.globals
    /\ frames' = s.frames
    /\ frame_count' = s.frame_count
    /\ arg_buf' = s.arg_buf
    /\ arg_count' = s.arg_count
    /\ error_buf' = s.error_buf
    /\ fuel_used' = s.fuel_used
    /\ initialized' = s.initialized
    /\ cstack' = s.cstack
    /\ last' = s.last
    /\ access' = s.access
    /\ dispatched' = s.dispatched
    /\ loading' = loading

\* the next state is the VM value s and the module as s leaves it; the other VM
\* is not touched
Commit(s) ==
    /\ Load(s)
    /\ mod' = s.mod
    /\ other' = other

\* narrow(a, b), a function of one register: RET
CodeNarrow == <<Ins("RET", 0, 0, 0)>>

\* dirty(a): LDI32 R1,7; LDI32 R2,9; and off the end of the code
CodeDirty == <<Ins("LDI32", 1, 0, 0), 7, Ins("LDI32", 2, 0, 0), 9>>

\* peek(): ADD32 R0,R1,R2; RET
CodePeek == <<Ins("ADD32", 0, 1, 2), Ins("RET", 0, 0, 0)>>

\* pass(a, b): LDI32 R2,7; ARG 0,R0; ARG 1,R1; CALL R1, function f; and off the
\* end of the code
CodePass(f) ==
    <<Ins("LDI32", 2, 0, 0), 7, Ins("ARG", 0, 0, 0), Ins("ARG", 1, 1, 0),
      Ins("CALL", 1, 0, 0), f>>

\* the exports of the module of calls, function i - 1 under WindowNames[i]
WindowNames == <<"narrow", "dirty", "peek", "pass_narrow", "pass_dirty", "pass_peek">>

\* a module of functions that enter one another: one of a single register, one
\* that leaves its registers non-zero, one that returns what it finds in them,
\* and a caller of each; without imports, memory or globals
ModWindow ==
    LET funcs == Arr(<<BodyFunc(1, CodeNarrow), BodyFunc(3, CodeDirty),
                       BodyFunc(3, CodePeek), BodyFunc(3, CodePass(0)),
                       BodyFunc(3, CodePass(1)), BodyFunc(3, CodePass(2))>>)
        exports == Arr([i \in 1..Len(WindowNames) |-> Export("FUNC", i - 1, WindowNames[i])])
    IN [imports |-> Arr(<<>>),
        import_count |-> 0,
        funcs |-> funcs,
        func_count |-> Count(funcs),
        globals |-> Arr(<<>>),
        global_count |-> 0,
        exports |-> exports,
        export_count |-> Count(exports),
        has_memory |-> FALSE,
        mem_initial_pages |-> 0,
        mem_max_pages |-> 0,
        data_segs |-> Arr(<<>>),
        data_seg_count |-> 0,
        init_func |-> -1]

\* far(a, b): ARG with dst = slot, s1 = R1, s2 = 1; RET
CodeFar(slot) == <<Ins("ARG", slot, 1, 1), Ins("RET", 0, 0, 0)>>

\* far_call(a, b): ARG with dst = slot, s1 = R1, s2 = 1; CALL R0, function f; RET
CodeFarCall(slot, f) ==
    <<Ins("ARG", slot, 1, 1), Ins("CALL", 0, 0, 0), f, Ins("RET", 0, 0, 0)>>

\* both(a, b): ARG with dst = 0, s1 = R1, s2 = 2; RET
CodeBoth == <<Ins("ARG", 0, 1, 2), Ins("RET", 0, 0, 0)>>

\* plain(a, b): ARG 0,R0; ARG 1,R1; CALL R0, function f; RET
CodePlain(f) ==
    <<Ins("ARG", 0, 0, 0), Ins("ARG", 1, 1, 0), Ins("CALL", 0, 0, 0), f,
      Ins("RET", 0, 0, 0)>>

\* the exports of the module of staging, function i - 1 under StageNames[i]
StageNames == <<"sink2", "far", "far_call", "both", "plain">>

\* a module of functions that stage arguments: in the first slot outside arg_buf,
\* with an s2 byte, and as test_host_call does; without imports, memory or globals
ModStage ==
    LET funcs == Arr(<<BodyFunc(2, CodeNarrow), BodyFunc(3, CodeFar(RUNE_MAX_PARAMS)),
                       BodyFunc(3, CodeFarCall(RUNE_MAX_PARAMS, 0)), BodyFunc(3, CodeBoth),
                       BodyFunc(3, CodePlain(0))>>)
        exports == Arr([i \in 1..Len(StageNames) |-> Export("FUNC", i - 1, StageNames[i])])
    IN [ModWindow EXCEPT !.funcs = funcs, !.func_count = Count(funcs),
                         !.exports = exports, !.export_count = Count(exports)]

\* seven(): LDI32 R0,7; and off the end of the code
CodeSeven == <<Ins("LDI32", 0, 0, 0), 7>>

\* cut(): the instruction word of op, without the immediate word
CodeCut(op) == <<Ins(op, 0, 0, 0)>>

\* jump(a): JMP offset; LDI32 R0,9; RET
CodeJumpBy(offset) ==
    <<Ins("JMP", 0, 0, 0), offset, Ins("LDI32", 0, 0, 0), 9, Ins("RET", 0, 0, 0)>>

\* the exports of the module of code ends, function i - 1 under FetchNames[i]
FetchNames == <<"seven", "cut_ldi", "cut_jmp", "cut_call", "jump_out", "jump_back", "jump_end">>

\* a module of functions whose code ends early or is jumped out of: an immediate
\* in the last word, an instruction word in the last word, jumps beyond the
\* code, before it and to its end; without imports, memory or globals
ModFetch ==
    LET funcs == Arr(<<BodyFunc(2, CodeSeven), BodyFunc(2, CodeCut("LDI32")),
                       BodyFunc(2, CodeCut("JMP")), BodyFunc(2, CodeCut("CALL")),
                       BodyFunc(2, CodeJumpBy(5)), BodyFunc(2, CodeJumpBy(0 - 5)),
                       BodyFunc(2, CodeJumpBy(3))>>)
        exports == Arr([i \in 1..Len(FetchNames) |-> Export("FUNC", i - 1, FetchNames[i])])
    IN [ModWindow EXCEPT !.funcs = funcs, !.func_count = Count(funcs),
                         !.exports = exports, !.export_count = Count(exports)]

\* call(): CALL R0, function f; RET
CodeCall(f) == <<Ins("CALL", 0, 0, 0), f, Ins("RET", 0, 0, 0)>>

\* the exports of the module of function indices, export i of function
\* IndexFuncs[i]
IndexNames == <<"seven", "call_far", "call_ok", "far">>

\* the function index of each export of the module of function indices: the
\* last one is func_count
IndexFuncs == <<0, 1, 2, 3>>

\* a module of three functions: one that calls function index func_count, one
\* that calls function 0, and an export whose index is func_count; without
\* imports, memory or globals
ModIndex ==
    LET funcs == Arr(<<BodyFunc(2, CodeSeven), BodyFunc(2, CodeCall(3)),
                       BodyFunc(2, CodeCall(0))>>)
        exports == Arr([i \in 1..Len(IndexNames) |->
                           Export("FUNC", IndexFuncs[i], IndexNames[i])])
    IN [ModWindow EXCEPT !.funcs = funcs, !.func_count = Count(funcs),
                         !.exports = exports, !.export_count = Count(exports)]

\* a module without imports whose MEMORY section declares two initial pages and
\* a maximum of one
ModShrunk == [ModNoImports EXCEPT !.mem_initial_pages = 2, !.mem_max_pages = 1]

\* a module without imports whose global is immutable
ModConst ==
    [ModNoImports EXCEPT !.globals = Arr(<<[mutable |-> FALSE, value |-> rune_i32(0)]>>)]

\* the module a name of VmNewInputs stands for
ModuleOf(m) ==
    CASE m = "plain" -> ModPlain
      [] m = "init" -> ModWithInit
      [] m = "noimp" -> ModNoImports
      [] m = "baddata" -> ModBadData
      [] m = "nomem" -> ModNoMemory
      [] m = "arith" -> ModArith
      [] m = "mem" -> ModMem
      [] m = "nomax" -> ModNoMax
      [] m = "wrapdata" -> ModWrapData
      [] m = "nomemdata" -> ModNoMemoryData
      [] m = "window" -> ModWindow
      [] m = "stage" -> ModStage
      [] m = "fetch" -> ModFetch
      [] m = "index" -> ModIndex
      [] m = "shrunk" -> ModShrunk
      [] m = "const" -> ModConst

\* the module record of vm->mod
M == mod

Top(stack) == stack[Len(stack)]

Pop(stack) == SubSeq(stack, 1, Len(stack) - 1)

\* vm_set_error
vm_set_error(s, msg) == [s EXCEPT !.error_buf = msg]

\* what a host API call was asked: the function it ran (-1 when it ran none) and
\* its arguments
Req(func, args) == [func |-> func, args |-> args]

\* what a completed host API call hands back to the host
Returned(s, op, req, err, val, data) ==
    [s EXCEPT !.last = [op |-> op, req |-> req, err |-> err, ret |-> val,
                        data |-> data, n |-> s.last.n + 1]]

\* an entry of the C call stack
Activation(kind, caller, dst, frame, func, args) ==
    [kind |-> kind, caller |-> caller, dst |-> dst, frame |-> frame, func |-> func,
     host |-> 0, args |-> args, result |-> RUNE_OK, at |-> "run"]

\* Deliver storing the callee's value in R(dst) before it tests the result
Deliver_writes_dst_first(s, a, err, val) ==
    IF a.caller \in {"vm_call", "init"}
    THEN Returned(s, a.caller, Req(a.func, a.args), err, val, <<>>)
    ELSE LET t == Len(s.cstack)
             c == s.cstack[t]
             w == [s EXCEPT !.frames[c.frame].regs[a.dst] = val]
         IN IF err # RUNE_OK
            THEN [w EXCEPT !.cstack[t].result = err, !.cstack[t].at = "done"]
            ELSE w

\* The return of a vm_exec activation or host callback `a` (already popped) with
\* code err and value val, as its caller continues:
\*   rune_vm_call / rune_vm_init hand the code to the host;
\*   OP_CALL / OP_CALL_HOST: if (result != RUNE_OK) goto done; R(dst) = ret;
Deliver(s, a, err, val) ==
    IF a.caller \in {"vm_call", "init"}
    THEN Returned(s, a.caller, Req(a.func, a.args), err, val, <<>>)
    ELSE LET t == Len(s.cstack)
             c == s.cstack[t]
         IN IF err # RUNE_OK
            THEN [s EXCEPT !.cstack[t].result = err, !.cstack[t].at = "done"]
            ELSE [s EXCEPT !.frames[c.frame].regs[a.dst] = val]

\* vm_resolve_host: the index in host_fns of the first entry with the import's
\* module and name, 0 when there is none (NULL)
vm_resolve_host(s, import_idx) ==
    IF import_idx < 0 \/ import_idx >= M.import_count THEN 0
    ELSE LET imp == M.imports[import_idx]
             hits == {i \in 1..Len(s.host_fns) :
                         /\ s.host_fns[i].module = imp.module
                         /\ s.host_fns[i].name = imp.name}
         IN IF hits = {} THEN 0 ELSE CHOOSE i \in hits : \A j \in hits : i <= j

\* the register window on entry with every argument copied in, whatever
\* reg_count says
EntryRegs_copies_all(fn, argv) ==
    [i \in 0..(RUNE_MAX_REGS - 1) |-> IF i < Len(argv) THEN argv[i + 1] ELSE ZeroVal]

\* the register window of a frame on entry: zeroed, then the arguments copied in
EntryRegs(fn, argv) ==
    LET copy_n == IF Len(argv) < fn.reg_count THEN Len(argv) ELSE fn.reg_count
    IN [i \in 0..(RUNE_MAX_REGS - 1) |-> IF i < copy_n THEN argv[i + 1] ELSE ZeroVal]

\* vm_exec of a function index outside mod->funcs: fn = &vm->mod->funcs[func_idx]
\* has no test of func_idx, and fn->is_import, fn->reg_count, fn->code and
\* fn->code_size are read outside the array (undefined behaviour).  The value
\* built here is the outcome in which the bytes found read as a function that is
\* no import and has no code: the frame is taken and zeroed, the loop body never
\* runs, R0 is returned and the frame released
StrayFunction(s, me) ==
    Deliver([s EXCEPT !.frames[s.frame_count] =
                          [func_idx |-> me.func, pc |-> 0,
                           regs |-> [i \in 0..(RUNE_MAX_REGS - 1) |-> ZeroVal]]],
            me, RUNE_OK, ZeroVal)

\* vm_exec whose stack test is off by one (> for >=)
vm_exec_stack_off_by_one(s, func_idx, argv, caller, dst) ==
    LET me == Activation("exec", caller, dst, s.frame_count, func_idx, argv)
        fn == M.funcs[func_idx]
        h == vm_resolve_host(s, fn.import_idx)
    IN IF ~s.initialized /\ func_idx # M.init_func
       THEN Deliver(s, me, RUNE_ERR_BADMODULE, rune_void)
       ELSE IF s.frame_count > s.cfg.stack_size
       THEN Deliver(vm_set_error(s, "call stack overflow"), me,
                    RUNE_ERR_STACKOVERFLOW, rune_void)
       ELSE IF fn.is_import
       THEN IF h = 0
            THEN Deliver(vm_set_error(s, "unresolved import"), me,
                         RUNE_ERR_NOIMPORT, rune_void)
            ELSE [s EXCEPT !.cstack = Append(@, [me EXCEPT !.kind = "host", !.host = h])]
       ELSE [s EXCEPT !.cstack = Append(@, me),
                      !.frames[s.frame_count] =
                          [func_idx |-> func_idx, pc |-> 0, regs |-> EntryRegs(fn, argv)],
                      !.frame_count = @ + 1]

\* vm_exec up to its dispatch loop: the initialized check, the stack check, the
\* host dispatch of an import, the frame push.  caller and dst say where the
\* activation returns to.
vm_exec(s, func_idx, argv, caller, dst) ==
    LET me == Activation("exec", caller, dst, s.frame_count, func_idx, argv)
        fn == M.funcs[func_idx]
        h == vm_resolve_host(s, fn.import_idx)
    IN IF ~s.initialized /\ func_idx # M.init_func
       THEN Deliver(s, me, RUNE_ERR_BADMODULE, rune_void)
       ELSE IF s.frame_count >= s.cfg.stack_size
       THEN Deliver(vm_set_error(s, "call stack overflow"), me,
                    RUNE_ERR_STACKOVERFLOW, rune_void)
       ELSE IF func_idx \notin DOMAIN M.funcs
       THEN [StrayFunction(s, me) EXCEPT !.ub = TRUE]
       ELSE IF fn.is_import
       THEN IF h = 0
            THEN Deliver(vm_set_error(s, "unresolved import"), me,
                         RUNE_ERR_NOIMPORT, rune_void)
            ELSE [s EXCEPT !.cstack = Append(@, [me EXCEPT !.kind = "host", !.host = h])]
       ELSE [s EXCEPT !.cstack = Append(@, me),
                      !.frames[s.frame_count] =
                          [func_idx |-> func_idx, pc |-> 0, regs |-> EntryRegs(fn, argv)],
                      !.frame_count = @ + 1]


(* ----------------------------- interpreter ---------------------------- *)

\* MEM_CHECK(offset, sz): TRUE when the macro returns RUNE_ERR_BOUNDS.  offset and
\* sz are uint32_t widened to 64 bits; a negative i32 stands for a uint32_t of at
\* least 2^31, which is beyond every memory of the model.
MEM_CHECK(s, offset, sz) ==
    \/ DOMAIN s.memory = {}
    \/ offset < 0
    \/ sz < 0
    \/ offset > s.memory_pages * RUNE_PAGE_SIZE - sz

\* the byte at vm->memory + i
MemByte(s, i) == IF i \in DOMAIN s.memory THEN s.memory[i] ELSE 0

\* memcpy/memset into vm->memory: byte off+k becomes bytes[k+1]
MemStore(s, off, bytes) ==
    [s EXCEPT !.memory = [i \in DOMAIN s.memory |->
                             IF i >= off /\ i < off + Len(bytes)
                             THEN bytes[i - off + 1] ELSE s.memory[i]],
              !.access = @ \cup {off + k : k \in 0..(Len(bytes) - 1)}]

\* the bytes read from vm->memory + off
MemLoad(s, off, n) == [k \in 1..n |-> MemByte(s, off + k - 1)]

\* a read of n bytes at off, recorded
Touch(s, off, n) == [s EXCEPT !.access = @ \cup {off + k : k \in 0..(n - 1)}]

\* the zero test of OP_JZ / OP_JNZ
IsZeroCond(val) == IF val.type \in {"bool", "i32", "i64"} THEN val.v = 0 ELSE FALSE

\* label done: of the running activation, reached with result err
Done(s, err, val) ==
    Deliver([s EXCEPT !.frame_count = @ - 1, !.cstack = Pop(@)], Top(s.cstack), err, val)

\* a return statement inside the dispatch loop (MEM_CHECK, FUEL_TICK): the
\* activation ends without passing label done:
ReturnDirect(s, err) ==
    Deliver([s EXCEPT !.cstack = Pop(@)], Top(s.cstack), err, rune_void)

\* FUEL_TICK: the fuel counter after the tick
FuelTicked(s) ==
    IF s.cfg.fuel_limit > 0 THEN [s EXCEPT !.fuel_used = @ + 1] ELSE s

\* FUEL_TICK: TRUE when the macro returns RUNE_ERR_FUEL (s is the state after the tick)
FuelExhausted(s) == s.cfg.fuel_limit > 0 /\ s.fuel_used > s.cfg.fuel_limit

\* what a read of a rune_val_t outside its array finds
StrayVal == [type |-> "stray", v |-> 0]

\* the staged arguments an OP_CALL / OP_CALL_HOST collects: memcpy of arg_count
\* values from arg_buf, which has RUNE_MAX_PARAMS of them
StagedArgs(s) ==
    [i \in 1..s.arg_count |-> IF i <= RUNE_MAX_PARAMS THEN s.arg_buf[i - 1] ELSE StrayVal]

\* OP_STGLOBAL storing through to the module's template of the global as well
StoreGlobal_in_module(s, gi, val) ==
    [s EXCEPT !.globals[gi] = val, !.mod.globals[gi].value = val]

\* OP_STGLOBAL: vm->globals[gi] = R(s1)
StoreGlobal(s, gi, val) == [s EXCEPT !.globals[gi] = val]

\* OP_MEM_GROW.  req and new_pages are uint32_t: a negative i32 stands for a
\* number of at least 2^31, and memory_pages + req wraps.  When req is such a
\* number and the wrapped sum passes the test, the memset length
\* (uint32_t)(req * RUNE_PAGE_SIZE) reaches 2^32 + new_pages * RUNE_PAGE_SIZE bytes
\* from the start of the buffer, beyond the memory_max * RUNE_PAGE_SIZE bytes
\* allocated: undefined behaviour.  The value built here is the outcome in which
\* the memset returns, having zeroed the rest of the buffer and what follows it.
MemGrow(s, f, dst, req) ==
    LET new_pages == Add32(s.memory_pages, req)
        from == s.memory_pages * RUNE_PAGE_SIZE
        len == IF req >= 0 THEN req * RUNE_PAGE_SIZE ELSE Count(s.memory) - from + 1
        zeros == [k \in 1..len |-> 0]
    IN IF new_pages < 0 \/ new_pages > s.memory_max
       THEN [s EXCEPT !.frames[f].regs[dst] = rune_i32(-1)]
       ELSE [MemStore(s, from, zeros) EXCEPT
                !.frames[f].regs[dst] = rune_i32(s.memory_pages),
                !.memory_pages = new_pages,
                !.ub = (req < 0)]

\* one case of the switch in vm_exec; s has PC past the instruction word
Instr(s, f, code, ins) ==
    LET regs == s.frames[f].regs
        pc == s.frames[f].pc
        op == ins.op
        dst == ins.dst
        s1 == ins.s1
        s2 == ins.s2
        imm == code[pc]
        si == [s EXCEPT !.frames[f].pc = pc + 1]
        off == Add32(regs[s1].v, imm)
        bounds ==
            ReturnDirect(vm_set_error(si, "memory access out of bounds"), RUNE_ERR_BOUNDS)
        setR(st, n, val) == [st EXCEPT !.frames[f].regs[n] = val]
    IN CASE op = "NOP" -> s
         [] op = "TRAP" -> Done(vm_set_error(s, "explicit trap"), RUNE_ERR_TRAP, rune_void)
         [] op = "RET" -> Done(s, RUNE_OK, regs[0])
         [] op = "JMP" -> [s EXCEPT !.frames[f].pc = Add32(pc + 1, imm)]
         [] op = "JLT" ->
              IF regs[s1].v < regs[s2].v
              THEN [s EXCEPT !.frames[f].pc = Add32(pc + 1, imm)]
              ELSE si
         [] op = "JLE" ->
              IF regs[s1].v <= regs[s2].v
              THEN [s EXCEPT !.frames[f].pc = Add32(pc + 1, imm)]
              ELSE si
         [] op = "JNZ" ->
              IF ~IsZeroCond(regs[s1])
              THEN [s EXCEPT !.frames[f].pc = Add32(pc + 1, imm)]
              ELSE si
         [] op = "JZ" ->
              IF IsZeroCond(regs[s1])
              THEN [s EXCEPT !.frames[f].pc = Add32(pc + 1, imm)]
              ELSE si
         [] op = "CALL" ->
              [vm_exec([si EXCEPT !.arg_count = 0], imm, StagedArgs(s), "op_call", dst)
                  EXCEPT !.ub = @ \/ s.arg_count > RUNE_MAX_PARAMS]
         [] op = "CALL_HOST" ->
              LET h == vm_resolve_host(s, imm)
              IN IF h = 0
                 THEN Done(vm_set_error(si, "unresolved import"), RUNE_ERR_NOIMPORT,
                           rune_void)
                 ELSE [si EXCEPT !.arg_count = 0,
                                 !.cstack =
                                     Append(@, [Activation("host", "call_host", dst, f,
                                                           imm, StagedArgs(s))
                                                    EXCEPT !.host = h]),
                                 !.ub = s.arg_count > RUNE_MAX_PARAMS]
         [] op = "ARG" ->
              LET b1 == IF s1 < RUNE_MAX_PARAMS
                        THEN [s.arg_buf EXCEPT ![s1] = regs[IF s2 # 0 THEN s2 ELSE dst]]
                        ELSE s.arg_buf
                  b2 == IF dst < RUNE_MAX_PARAMS THEN [b1 EXCEPT ![dst] = regs[s1]] ELSE b1
              IN [s EXCEPT !.arg_buf = b2,
                           !.arg_count = IF dst >= @ THEN (dst + 1) % 256 ELSE @,
                           !.ub = dst >= RUNE_MAX_PARAMS]
         [] op = "LDI32" -> setR(si, dst, rune_i32(imm))
         [] op = "LDGLOBAL" ->
              IF imm < 0 \/ imm >= M.global_count
              THEN Done(si, RUNE_ERR_BOUNDS, rune_void)
              ELSE setR(si, dst, s.globals[imm])
         [] op = "STGLOBAL" ->
              IF imm < 0 \/ imm >= M.global_count
              THEN Done(si, RUNE_ERR_BOUNDS, rune_void)
              ELSE StoreGlobal(si, imm, regs[s1])
         [] op = "MOV" -> setR(s, dst, regs[s1])
         [] op = "ADD32" -> setR(s, dst, rune_i32(Add32(regs[s1].v, regs[s2].v)))
         [] op = "DIV32" ->
              IF regs[s2].v = 0
              THEN Done(s, RUNE_ERR_DIVZERO, rune_void)
              ELSE [setR(s, dst, rune_i32(Div32(regs[s1].v, regs[s2].v)))
                       EXCEPT !.ub = DivOverflows(regs[s1].v, regs[s2].v, MinI32)]
         [] op = "DIVU32" ->
              IF regs[s2].v = 0
              THEN Done(s, RUNE_ERR_DIVZERO, rune_void)
              ELSE setR(s, dst, rune_i32(DivU32(regs[s1].v, regs[s2].v)))
         [] op = "REM32" ->
              IF regs[s2].v = 0
              THEN Done(s, RUNE_ERR_DIVZERO, rune_void)
              ELSE [setR(s, dst, rune_i32(Rem32(regs[s1].v, regs[s2].v)))
                       EXCEPT !.ub = DivOverflows(regs[s1].v, regs[s2].v, MinI32)]
         [] op = "REMU32" ->
              IF regs[s2].v = 0
              THEN Done(s, RUNE_ERR_DIVZERO, rune_void)
              ELSE setR(s, dst, rune_i32(RemU32(regs[s1].v, regs[s2].v)))
         [] op = "DIV64" ->
              IF regs[s2].v = 0
              THEN Done(s, RUNE_ERR_DIVZERO, rune_void)
              ELSE setR(s, dst, rune_i64(Div64(regs[s1].v, regs[s2].v)))
         [] op = "DIVU64" ->
              IF regs[s2].v = 0
              THEN Done(s, RUNE_ERR_DIVZERO, rune_void)
              ELSE setR(s, dst, rune_i64(DivU64(regs[s1].v, regs[s2].v)))
         [] op = "REM64" ->
              IF regs[s2].v = 0
              THEN Done(s, RUNE_ERR_DIVZERO, rune_void)
              ELSE setR(s, dst, rune_i64(Rem64(regs[s1].v, regs[s2].v)))
         [] op = "LOAD8" ->
              IF MEM_CHECK(s, off, 1) THEN bounds
              ELSE setR(Touch(si, off, 1), dst, rune_i32(MemByte(s, off)))
         [] op = "LOAD8S" ->
              IF MEM_CHECK(s, off, 1) THEN bounds
              ELSE setR(Touch(si, off, 1), dst, rune_i32(SignExt8(MemByte(s, off))))
         [] op = "LOAD16" ->
              IF MEM_CHECK(s, off, 2) THEN bounds
              ELSE LET b == MemLoad(s, off, 2)
                   IN setR(Touch(si, off, 2), dst, rune_i32(FromBytes16(b[1], b[2])))
         [] op = "LOAD16S" ->
              IF MEM_CHECK(s, off, 2) THEN bounds
              ELSE LET b == MemLoad(s, off, 2)
                   IN setR(Touch(si, off, 2), dst,
                           rune_i32(SignExt16(FromBytes16(b[1], b[2]))))
         [] op = "LOAD64" ->
              IF MEM_CHECK(s, off, 8) THEN bounds
              ELSE LET b == MemLoad(s, off, 8)
                   IN setR(Touch(si, off, 8), dst,
                           I64OfWords(FromBytes(b[1], b[2], b[3], b[4]),
                                      FromBytes(b[5], b[6], b[7], b[8])))
         [] op = "LOAD32" ->
              IF MEM_CHECK(s, off, 4) THEN bounds
              ELSE LET b == MemLoad(s, off, 4)
                   IN setR(Touch(si, off, 4), dst,
                           rune_i32(FromBytes(b[1], b[2], b[3], b[4])))
         [] op = "STORE8" ->
              IF MEM_CHECK(s, off, 1) THEN bounds
              ELSE MemStore(si, off, <<ByteOf(regs[dst].v, 0)>>)
         [] op = "STORE16" ->
              IF MEM_CHECK(s, off, 2) THEN bounds
              ELSE MemStore(si, off, [k \in 1..2 |-> ByteOf(regs[dst].v, k - 1)])
         [] op = "STORE64" ->
              IF MEM_CHECK(s, off, 8) THEN bounds
              ELSE MemStore(si, off, Image64(regs[dst]))
         [] op = "STORE32" ->
              IF MEM_CHECK(s, off, 4) THEN bounds
              ELSE MemStore(si, off, [k \in 1..4 |-> ByteOf(regs[dst].v, k - 1)])
         [] op = "MEM_SIZE" -> setR(s, dst, rune_i32(s.memory_pages))
         [] op = "MEM_GROW" -> MemGrow(s, f, dst, regs[s1].v)
         [] op = "MEM_COPY" ->
              LET pdst == regs[dst].v
                  psrc == regs[s1].v
                  sz == regs[s2].v
              IN IF MEM_CHECK(s, pdst, sz) \/ MEM_CHECK(s, psrc, sz)
                 THEN ReturnDirect(vm_set_error(s, "memory access out of bounds"),
                                   RUNE_ERR_BOUNDS)
                 ELSE MemStore(Touch(s, psrc, sz), pdst, MemLoad(s, psrc, sz))
         [] op = "MEM_FILL" ->
              LET pdst == regs[dst].v
                  val == regs[s1].v
                  sz == regs[s2].v
              IN IF MEM_CHECK(s, pdst, sz)
                 THEN ReturnDirect(vm_set_error(s, "memory access out of bounds"),
                                   RUNE_ERR_BOUNDS)
                 ELSE MemStore(s, pdst, [k \in 1..sz |-> val % 256])
         [] OTHER -> Done(vm_set_error(s, "unknown opcode"), RUNE_ERR_BADOPCODE, rune_void)

\* the opcodes whose case calls read_imm32
ImmOps ==
    {"JMP", "JZ", "JNZ", "JLT", "JLE", "CALL", "CALL_HOST", "LDI32", "LDGLOBAL",
     "STGLOBAL", "LOAD8", "LOAD8S", "LOAD16", "LOAD16S", "LOAD32", "LOAD64",
     "STORE8", "STORE16", "STORE32", "STORE64"}

\* one turn of the dispatch loop of the running activation: the loop test, NEXT()
\* with its FUEL_TICK, and the instruction's case.  read_imm32 has no test of PC
\* against code_words: when the instruction word is the last word of the code,
\* the immediate is the word that lies after the code, here past (undefined
\* behaviour)
Exec(s, past) ==
    LET a == Top(s.cstack)
        f == a.frame
        pc == s.frames[f].pc
        code == M.funcs[a.func].code
        fetched == [i \in 0..Count(code) |-> IF i < Count(code) THEN code[i] ELSE past]
        s1 == FuelTicked(s)
        s2 == [s1 EXCEPT !.frames[f].pc = pc + 1,
                         !.dispatched = [call |-> @.call + 1,
                                         fuel |-> IF s.cfg.fuel_limit > 0
                                                  THEN @.fuel + 1 ELSE @.fuel]]
    IN IF pc < 0 \/ pc >= Count(code)
       THEN Done(s, RUNE_OK, s.frames[f].regs[0])
       ELSE IF FuelExhausted(s1)
       THEN ReturnDirect(vm_set_error(s1, "fuel limit exceeded"), RUNE_ERR_FUEL)
       ELSE IF code[pc].op \in ImmOps /\ pc + 1 >= Count(code)
       THEN [Instr(s2, f, fetched, code[pc]) EXCEPT !.ub = TRUE]
       ELSE Instr(s2, f, code, code[pc])


(* ------------------------------ host API ------------------------------ *)

\* rune_vm_register without the test of vm->initialized
rune_vm_register_any_time(s, mod_name, name, fn) ==
    Returned([s EXCEPT !.host_fns =
                 Append(@, [module |-> mod_name, name |-> name, fn |-> fn])],
             "register", Req(-1, <<mod_name, name>>), RUNE_OK, rune_void, <<>>)

\* rune_vm_register
rune_vm_register(s, mod_name, name, fn) ==
    IF s.initialized
    THEN Returned(s, "register", Req(-1, <<mod_name, name>>), RUNE_ERR_BADMODULE,
                  rune_void, <<>>)
    ELSE Returned([s EXCEPT !.host_fns =
                       Append(@, [module |-> mod_name, name |-> name, fn |-> fn])],
                  "register", Req(-1, <<mod_name, name>>), RUNE_OK, rune_void, <<>>)

\* the import lookup of rune_vm_init comparing the function names only
ImportFound_by_name(s, i) ==
    \E j \in 1..Len(s.host_fns) : s.host_fns[j].name = M.imports[i].name

\* rune_vm_init: TRUE when import i has a registered host entry
ImportFound(s, i) ==
    \E j \in 1..Len(s.host_fns) :
        /\ s.host_fns[j].module = M.imports[i].module
        /\ s.host_fns[j].name = M.imports[i].name

\* rune_vm_init leaving the data segments out
ApplyDataSegs_skipped(s, i) == [vm |-> s, err |-> RUNE_OK]

\* rune_vm_init: the data-segment loop from segment i on; [vm, err].  The end of
\* a segment is a uint32_t sum; a segment whose offset is 2^31 or more (negative
\* here) and whose end wraps below the memory size is copied to an address
\* outside the allocation, which is undefined behaviour
RECURSIVE ApplyDataSegs(_, _)
ApplyDataSegs(s, i) ==
    IF i >= M.data_seg_count THEN [vm |-> s, err |-> RUNE_OK]
    ELSE LET seg == M.data_segs[i]
             end == Add32(seg.offset, seg.size)
         IN IF end < 0 \/ end > s.memory_pages * RUNE_PAGE_SIZE
            THEN [vm |-> vm_set_error(s, "data segment out of bounds"),
                  err |-> RUNE_ERR_BOUNDS]
            ELSE ApplyDataSegs([MemStore(s, seg.offset, seg.data) EXCEPT
                                    !.ub = @ \/ seg.offset < 0], i + 1)

\* rune_vm_init refusing a memory of exactly memory_limit bytes
InitMemory_limit_inclusive(s) ==
    LET max_pages == IF M.mem_max_pages > 0 THEN M.mem_max_pages
                     ELSE M.mem_initial_pages
    IN IF ~M.has_memory THEN [vm |-> s, err |-> RUNE_OK]
       ELSE IF max_pages * RUNE_PAGE_SIZE >= s.cfg.memory_limit
       THEN [vm |-> vm_set_error(s, "memory limit exceeded"), err |-> RUNE_ERR_OOM]
       ELSE ApplyDataSegs(
                [s EXCEPT !.memory = [i \in 0..(max_pages * RUNE_PAGE_SIZE - 1) |-> 0],
                          !.memory_pages = M.mem_initial_pages,
                          !.memory_max = max_pages], 0)

\* rune_vm_init: the linear-memory block; [vm, err]
InitMemory(s) ==
    LET max_pages == IF M.mem_max_pages > 0 THEN M.mem_max_pages
                     ELSE M.mem_initial_pages
    IN IF ~M.has_memory THEN [vm |-> s, err |-> RUNE_OK]
       ELSE IF max_pages * RUNE_PAGE_SIZE > s.cfg.memory_limit
       THEN [vm |-> vm_set_error(s, "memory limit exceeded"), err |-> RUNE_ERR_OOM]
       ELSE ApplyDataSegs(
                [s EXCEPT !.memory = [i \in 0..(max_pages * RUNE_PAGE_SIZE - 1) |-> 0],
                          !.memory_pages = M.mem_initial_pages,
                          !.memory_max = max_pages], 0)

\* rune_vm_init leaving the globals array zeroed instead of copying the templates
InitGlobals_zeroed(s) ==
    [s EXCEPT !.globals = IF M.global_count > 0
                          THEN [i \in 0..(M.global_count - 1) |-> ZeroVal]
                          ELSE @,
              !.initialized = TRUE]

\* rune_vm_init: the globals are copied and initialized is set
InitGlobals(s) ==
    [s EXCEPT !.globals = IF M.global_count > 0
                          THEN [i \in 0..(M.global_count - 1) |-> M.globals[i].value]
                          ELSE @,
              !.initialized = TRUE]

\* rune_vm_init
rune_vm_init(s) ==
    LET mem == InitMemory(s)
        s2 == InitGlobals(mem.vm)
    IN IF \E i \in 0..(M.import_count - 1) : ~ImportFound(s, i)
       THEN Returned(vm_set_error(s, "unresolved import"), "init", Req(-1, <<>>),
                     RUNE_ERR_NOIMPORT, rune_void, <<>>)
       ELSE IF mem.err # RUNE_OK
       THEN Returned(mem.vm, "init", Req(-1, <<>>), mem.err, rune_void, <<>>)
       ELSE IF M.init_func >= 0
       THEN vm_exec(s2, M.init_func, <<>>, "init", 0)
       ELSE Returned(s2, "init", Req(-1, <<>>), RUNE_OK, rune_void, <<>>)

\* rune_vm_call
rune_vm_call(s, name, argv) ==
    LET hits == {i \in 0..(M.export_count - 1) :
                    M.exports[i].kind = "FUNC" /\ M.exports[i].name = name}
        first == CHOOSE i \in hits : \A j \in hits : i <= j
    IN IF ~s.initialized
       THEN Returned(vm_set_error(s, "VM not initialized"), "vm_call", Req(-1, argv),
                     RUNE_ERR_BADMODULE, rune_void, <<>>)
       ELSE IF hits = {}
       THEN Returned(vm_set_error(s, "export not found"), "vm_call", Req(-1, argv),
                     RUNE_ERR_NOEXPORT, rune_void, <<>>)
       ELSE vm_exec(s, M.exports[first].idx, argv, "vm_call", 0)

\* rune_vm_refuel installing the budget without resetting the counter
rune_vm_refuel_keeps_counter(s, fuel) ==
    Returned([s EXCEPT !.cfg.fuel_limit = fuel, !.dispatched.fuel = 0],
             "refuel", Req(-1, <<fuel>>), RUNE_OK, rune_void, <<>>)

\* rune_vm_refuel
rune_vm_refuel(s, fuel) ==
    Returned([s EXCEPT !.fuel_used = 0, !.cfg.fuel_limit = fuel, !.dispatched.fuel = 0],
             "refuel", Req(-1, <<fuel>>), RUNE_OK, rune_void, <<>>)

\* the bounds test of rune_vm_mem_read / rune_vm_mem_write: TRUE when it fails
MemAccessorFails(s, offset, len) ==
    DOMAIN s.memory = {} \/ offset + len > s.memory_pages * RUNE_PAGE_SIZE

\* rune_vm_mem_read
rune_vm_mem_read(s, offset, len) ==
    IF MemAccessorFails(s, offset, len)
    THEN Returned(s, "mem_read", Req(-1, <<offset, len>>), RUNE_ERR_BOUNDS, rune_void,
                  <<>>)
    ELSE Returned(Touch(s, offset, len), "mem_read", Req(-1, <<offset, len>>), RUNE_OK,
                  rune_void, MemLoad(s, offset, len))

\* rune_vm_mem_write
rune_vm_mem_write(s, offset, src) ==
    IF MemAccessorFails(s, offset, Len(src))
    THEN Returned(s, "mem_write", Req(-1, <<offset, Len(src)>>), RUNE_ERR_BOUNDS,
                  rune_void, <<>>)
    ELSE Returned(MemStore(s, offset, src), "mem_write", Req(-1, <<offset, Len(src)>>),
                  RUNE_OK, rune_void, <<>>)

(* ------------------------------- inputs ------------------------------- *)

\* the (module, config) pairs rune_vm_new is called with
VmNewInputs ==
    LET c(limit, fuel) ==
            [stack_size |-> StackSize, memory_limit |-> limit, fuel_limit |-> fuel]
        big == 4 * RUNE_PAGE_SIZE
    IN {<<"plain", c(big, 0)>>, <<"plain", c(RUNE_PAGE_SIZE, 0)>>,
        <<"init", c(big, 0)>>,
        <<"noimp", c(big, 0)>>, <<"noimp", c(big, FuelLimit)>>,
        <<"baddata", c(big, 0)>>, <<"nomem", c(big, 0)>>}

\* the (module, name) pairs and callbacks the host registers
RegisterInputs == {<<"test", "sink", "f1">>, <<"env", "sink", "f2">>}

\* the argument vectors the host passes to an export
ExportArgs(name) ==
    LET v(x) == rune_i32(x)
        P == RUNE_PAGE_SIZE
    IN CASE name \in {"div", "outer_div"} -> {<<v(6), v(0)>>, <<v(6), v(2)>>}
         [] name = "stage" -> {<<v(6), v(2)>>, <<v(0), v(2)>>}
         [] name = "stglobal_bad" -> {<<v(5)>>}
         [] name \in {"store_load", "outer_mem"} ->
                {<<v(0), v(5)>>, <<v(P - 3), v(5)>>}
         [] name = "call_sink" -> {<<v(3)>>}
         [] name = "fill" -> {<<v(1), v(5), v(P - 1)>>, <<v(1), v(5), v(P)>>,
                              <<v(P + 1), v(5), v(0)>>}
         [] name = "copy" -> {<<v(2), v(1), v(2)>>, <<v(0), v(P - 1), v(2)>>}
         [] name = "grow" -> {<<v(1)>>, <<v(2)>>}
         [] name \in {"DIV32", "DIVU32", "REM32", "REMU32"} ->
                {<<v(10), v(2)>>, <<v(10), v(0)>>, <<v(-7), v(2)>>, <<v(MinI32), v(-1)>>}
         [] name \in {"DIV64", "REM64"} ->
                {<<rune_i64(10), rune_i64(2)>>, <<rune_i64(10), rune_i64(0)>>,
                 <<rune_i64(-7), rune_i64(2)>>}
         [] name = "DIVU64" ->
                {<<rune_i64(10), rune_i64(2)>>, <<rune_i64(10), rune_i64(0)>>,
                 <<rune_i64(7), rune_i64(-2)>>}
         [] OTHER -> {<<>>}

\* the export names the host calls
CallNames ==
    {"div", "store_load", "loop", "trap", "badop", "rec", "call_sink", "outer_div",
     "outer_mem", "fill", "copy", "grow", "increment", "sink", "missing"}

\* what a host callback returns: its code and the value it leaves in *ret
HostResults ==
    {<<RUNE_OK, rune_void>>, <<RUNE_OK, rune_i32(0)>>, <<RUNE_OK, rune_i32(1)>>,
     <<RUNE_ERR_HOST, rune_void>>}

(* ------------------------------- actions ------------------------------ *)

\* the state rune_vm_new(m, c) leaves: calloc'ed, with the config and an empty
\* host table
InitWith(m, c) ==
    /\ mod = m
    /\ cfg = c
    /\ host_fns = <<>>
    /\ memory = <<>>
    /\ memory_pages = 0
    /\ memory_max = 0
    /\ globals = <<>>
    /\ frames = [k \in 0..(StackSize - 1) |-> [func_idx |-> 0, pc |-> 0, regs |-> <<>>]]
    /\ frame_count = 0
    /\ arg_buf = [i \in 0..(RUNE_MAX_PARAMS - 1) |-> ZeroVal]
    /\ arg_count = 0
    /\ error_buf = ""
    /\ fuel_used = 0
    /\ initialized = FALSE
    /\ cstack = <<>>
    /\ last = [op |-> "vm_new", req |-> Req(-1, <<>>), err |-> RUNE_OK,
               ret |-> rune_void, data |-> <<>>, n |-> 0]
    /\ access = {}
    /\ dispatched = [call |-> 0, fuel |-> 0]
    /\ ops = 0

\* no rune_module_load was made
NoLoad ==
    [raw |-> <<>>, r |-> [pos |-> 0, error |-> FALSE], err |-> RUNE_OK,
     mod |-> NewModule, ub |-> FALSE, at |-> "none", src |-> [kind |-> "none"]]

\* no second VM
NoOther == [vm |-> <<>>, id |-> 0, cmp |-> <<>>]

Init ==
    /\ \E in \in VmNewInputs : InitWith(ModuleOf(in[1]), in[2])
    /\ other = NoOther
    /\ loading = NoLoad

\* the host is running: at the top level, or inside one of its callbacks
HostTurn == IF cstack = <<>> THEN TRUE ELSE Top(cstack).kind = "host"

\* the host makes one more API call
HostOp ==
    /\ HostTurn
    /\ ops < MaxHostOps
    /\ ops' = ops + 1

\* the VM value a top-level rune_vm_call / rune_vm_init starts from
Start == IF cstack = <<>> THEN [Cur EXCEPT !.dispatched.call = 0] ELSE Cur

RuneVmRegister ==
    /\ HostOp
    /\ ~initialized => Len(host_fns) < MaxHostFns
    /\ \E in \in RegisterInputs : Commit(rune_vm_register(Cur, in[1], in[2], in[3]))

\* what rune_vm_init can leave: the value it computes, and, when the copy of a
\* data segment has undefined behaviour, also the death of the process
InitOutcomes(s) ==
    LET r == rune_vm_init(s)
        dead == [Activation("exec", "init", 0, s.frame_count, 0, <<>>)
                     EXCEPT !.at = "crashed"]
    IN IF r.ub THEN {[r EXCEPT !.ub = FALSE], [s EXCEPT !.cstack = Append(@, dead)]}
       ELSE {r}

RuneVmInit ==
    /\ HostOp
    /\ \E r \in InitOutcomes(Start) : Commit(r)

RuneVmCall ==
    /\ HostOp
    /\ \E name \in CallNames : \E argv \in ExportArgs(name) :
           Commit(rune_vm_call(Start, name, argv))

RuneVmRefuel ==
    /\ HostOp
    /\ \E fuel \in {0, FuelLimit} : Commit(rune_vm_refuel(Cur, fuel))

RuneVmMemRead ==
    /\ HostOp
    /\ \E in \in {<<0, 2>>, <<RUNE_PAGE_SIZE - 1, 2>>, <<RUNE_PAGE_SIZE, 0>>} :
           Commit(rune_vm_mem_read(Cur, in[1], in[2]))

RuneVmMemWrite ==
    /\ HostOp
    /\ \E in \in {<<0, <<5>>>>, <<RUNE_PAGE_SIZE - 1, <<5, 5>>>>} :
           Commit(rune_vm_mem_write(Cur, in[1], in[2]))

\* a host callback returns to the interpreter (or to rune_vm_call / rune_vm_init)
HostReturn ==
    /\ cstack # <<>>
    /\ Top(cstack).kind = "host"
    /\ \E r \in HostResults :
           Commit(Deliver([Cur EXCEPT !.cstack = Pop(@)], Top(cstack), r[1], r[2]))
    /\ ops' = ops

\* the process is killed by a signal while the running activation executes
Crashed(s) == [s EXCEPT !.cstack[Len(s.cstack)].at = "crashed"]

\* what error_buf holds once bytes of a rune_val_t were written over it
Overwritten == "(bytes of a register)"

\* OP_ARG of a slot outside arg_buf: vm->arg_buf[dst] = R(s1) writes where the
\* members that follow arg_buf in struct rune_vm lie (arg_count, error_buf,
\* fuel_used, initialized) or beyond the struct.  r is the value Exec computes for
\* the turn with undefined behaviour; the set holds what the write leaves when it
\* lands on one of the members
ArgOverrun(s, r) ==
    LET a == Top(s.cstack)
        fr == s.frames[a.frame]
        ins == M.funcs[a.func].code[fr.pc]
        val == fr.regs[ins.s1]
        q == [r EXCEPT !.ub = FALSE]
    IN IF ins.op = "ARG" /\ ins.dst >= RUNE_MAX_PARAMS
       THEN {[q EXCEPT !.error_buf = Overwritten],
             [q EXCEPT !.fuel_used = IF val.v >= 0 THEN val.v ELSE 0],
             [q EXCEPT !.initialized = (val.v # 0)]}
       ELSE {}

\* the words a read past the end of a function's code can find
PastWords == {0, 1}

\* what a turn of the dispatch loop can leave: the value Exec computes, and, when
\* the instruction has undefined behaviour, also the death of the process
ExecOutcomes(s) ==
    LET r == Exec(s, 0)
    IN IF r.ub
       THEN {[Exec(s, w) EXCEPT !.ub = FALSE] : w \in PastWords}
                \cup {Crashed(s)} \cup ArgOverrun(s, r)
       ELSE {r}

\* the interpreter executes one instruction, or leaves the loop at its end
Step ==
    /\ cstack # <<>>
    /\ Top(cstack).kind = "exec"
    /\ Top(cstack).at = "run"
    /\ dispatched.call < MaxSteps
    /\ \E r \in ExecOutcomes(Cur) : Commit(r)
    /\ ops' = ops

\* an activation whose callee returned an error leaves through label done:
ExecDone ==
    /\ cstack # <<>>
    /\ Top(cstack).kind = "exec"
    /\ Top(cstack).at = "done"
    /\ Commit(Done(Cur, Top(cstack).result, rune_void))
    /\ ops' = ops

Next ==
    \/ RuneVmRegister
    \/ RuneVmInit
    \/ RuneVmCall
    \/ RuneVmRefuel
    \/ RuneVmMemRead
    \/ RuneVmMemWrite
    \/ HostReturn
    \/ Step
    \/ ExecDone

Spec == Init /\ [][Next]_vars

(* ------------------- the division opcodes on their own ---------------- *)

\* a VM for the module of the division opcodes, metering off
InitArith ==
    /\ InitWith(ModuleOf("arith"),
                [stack_size |-> StackSize, memory_limit |-> RUNE_PAGE_SIZE,
                 fuel_limit |-> 0])
    /\ other = NoOther
    /\ loading = NoLoad

\* the host calls one of the division exports
RuneVmCallArith ==
    /\ HostOp
    /\ \E i \in 1..Len(DivOps) : \E argv \in ExportArgs(DivOps[i]) :
           Commit(rune_vm_call(Start, DivOps[i], argv))

NextArith ==
    \/ RuneVmInit
    \/ RuneVmCallArith
    \/ Step

SpecArith == InitArith /\ [][NextArith]_vars

(* ------------------- the loads and stores on their own ---------------- *)

\* the argument vectors the host passes to an export of ModMem: addresses 1 and
\* 3 (unaligned, the wider accesses overlapping), values whose truncations
\* differ from them, and for the exports with an immediate a base that makes
\* the 32-bit sum wrap to 0 and one that puts the access at the end of the memory
MemArgs(name) ==
    LET v(x) == rune_i32(x)
        end == ModMem.mem_initial_pages * RUNE_PAGE_SIZE
        vals == IF name = "STORE64"
                THEN {rune_i64(-99), I64OfWords(305432421, 7)}
                ELSE {v(-99), v(305432421)}
    IN CASE name \in {StoreOps[i] : i \in 1..Len(StoreOps)} ->
                {<<v(a), x>> : a \in {1, 3}, x \in vals}
         [] name \in {LoadOps[i] : i \in 1..Len(LoadOps)} -> {<<v(1)>>, <<v(3)>>}
         [] name = "STORE32+" -> {<<v(-MemImm), v(-99)>>, <<v(end - MemImm - 3), v(-99)>>}
         [] name = "LOAD8+" -> {<<v(-MemImm)>>, <<v(end - MemImm)>>}

\* a VM for the module of the loads and stores, metering off
InitMem ==
    /\ InitWith(ModuleOf("mem"),
                [stack_size |-> StackSize,
                 memory_limit |-> ModMem.mem_max_pages * RUNE_PAGE_SIZE,
                 fuel_limit |-> 0])
    /\ other = NoOther
    /\ loading = NoLoad

\* the host calls one of the exports of ModMem
RuneVmCallMem ==
    /\ HostOp
    /\ \E i \in 1..Len(MemNames) : \E argv \in MemArgs(MemNames[i]) :
           Commit(rune_vm_call(Start, MemNames[i], argv))

NextMem ==
    \/ RuneVmInit
    \/ RuneVmCallMem
    \/ Step

SpecMem == InitMem /\ [][NextMem]_vars

(* ---------------------- the branches on their own -------------------- *)

\* the words of a body at which the dispatch loop fetches an instruction when it
\* runs from word k on without branching: the word after a branch opcode is its
\* immediate (read_imm32)
RECURSIVE InstrWords(_, _)
InstrWords(code, k) ==
    IF k >= Count(code) THEN {}
    ELSE {k} \cup InstrWords(code, IF code[k].op \in JumpOps THEN k + 2 ELSE k + 1)

\* the (patch_word, target_word) pairs of a body: the branch and its immediate
\* lie before the final RET, the target is any word of the body
JumpPlaces == (0..(JumpBodyWords - 3)) \X (0..(JumpBodyWords - 1))

\* a VM for a module with one patched branch, metering off
InitJump ==
    /\ \E op \in JumpOps : \E pt \in JumpPlaces :
           InitWith(ModJump(op, pt[1], pt[2]),
                    [stack_size |-> StackSize, memory_limit |-> RUNE_PAGE_SIZE,
                     fuel_limit |-> 0])
    /\ other = NoOther
    /\ loading = NoLoad

\* the host calls jump(a, b)
RuneVmCallJump ==
    /\ HostOp
    /\ \E argv \in {<<rune_i32(0), rune_i32(1)>>, <<rune_i32(1), rune_i32(1)>>,
                    <<rune_i32(1), rune_i32(0)>>} :
           Commit(rune_vm_call(Start, "jump", argv))

\* a turn of the dispatch loop.  A branch into its own immediate makes the loop
\* decode the offset as an instruction word; the opcode numbers (rune_bytecode.h)
\* are not part of the sources and the model follows the activation no further.
StepJump ==
    /\ cstack # <<>>
    /\ Top(cstack).kind = "exec"
    /\ LET code == M.funcs[Top(cstack).func].code
           pc == frames[Top(cstack).frame].pc
       IN pc \in DOMAIN code => pc \in InstrWords(code, 0)
    /\ Step

NextJump ==
    \/ RuneVmInit
    \/ RuneVmCallJump
    \/ StepJump

SpecJump == InitJump /\ [][NextJump]_vars

(* ---------------------- rune_vm_init on its own ----------------------- *)

\* the (module, memory_limit) pairs of the VMs that are initialized: limits of no,
\* one and two pages
InitInputs ==
    {"plain", "init", "noimp", "nomax", "nomem", "baddata", "wrapdata", "nomemdata"}
        \X {0, RUNE_PAGE_SIZE, 2 * RUNE_PAGE_SIZE}

\* a VM for one of these, metering off
InitInit ==
    /\ \E in \in InitInputs :
           InitWith(ModuleOf(in[1]),
                    [stack_size |-> StackSize, memory_limit |-> in[2], fuel_limit |-> 0])
    /\ other = NoOther
    /\ loading = NoLoad

\* the host calls an export (grow after rune_vm_init shows the allocation)
RuneVmCallInit ==
    /\ HostOp
    /\ \E argv \in ExportArgs("grow") : Commit(rune_vm_call(Start, "grow", argv))

NextInit ==
    \/ RuneVmRegister
    \/ RuneVmInit
    \/ RuneVmCallInit
    \/ HostReturn
    \/ Step
    \/ ExecDone

SpecInit == InitInit /\ [][NextInit]_vars

(* ------------------------ rune_module_load on its own ----------------- *)

\* the longest sequence of rune_asm_import / rune_asm_func calls assembled
MaxAsmCalls == 3

\* "_init"
InitName == <<95, 105, 110, 105, 116>>

\* rune_asm_global
rune_asm_global(a, type, mutable, init) ==
    [a EXCEPT !.globals = Append(@, [type |-> type, mutable |-> mutable, init |-> init])]

\* rune_asm_data
rune_asm_data(a, offset, data) ==
    [a EXCEPT !.data_segs = Append(@, [offset |-> offset, size |-> Len(data),
                                       data |-> data])]

\* the assembler after rune_asm_new, rune_asm_type for the type () -> () and,
\* for each element of p in turn, rune_asm_import or rune_asm_func (with a body
\* of one word) followed by rune_asm_export_func of the index returned, under a
\* name of its own: [a, rets], rets being the indices returned.  Call k exports
\* under the name "f<k>", an import is "e"."i<k>", a body has k registers
AsmProgram(p) ==
    LET RECURSIVE go(_, _, _)
        go(k, a, rets) ==
            IF k > Len(p) THEN [a |-> a, rets |-> rets]
            ELSE IF p[k] = "import"
            THEN LET c == rune_asm_import(a, <<101>>, <<105, 48 + k>>, 0)
                 IN go(k + 1, rune_asm_export_func(c.a, c.ret, <<102, 48 + k>>),
                       Append(rets, c.ret))
            ELSE LET c == rune_asm_func(a, 0, k, 0)
                 IN go(k + 1,
                       rune_asm_export_func(AsmBody(c.a, c.ret, <<k, 0, 0, 0>>), c.ret,
                                            <<102, 48 + k>>),
                       Append(rets, c.ret))
    IN go(1, rune_asm_type(rune_asm_new, <<>>, <<>>).a, <<>>)

\* the sequences of 1..MaxAsmCalls calls, each rune_asm_import or rune_asm_func
AsmPrograms ==
    UNION {[1..n -> {"import", "func"}] : n \in 1..MaxAsmCalls}

\* an assembler used by a caller who passes indices that denote nothing, or with
\* every kind of section
AsmOther(name) ==
    LET t == rune_asm_type(rune_asm_new, <<>>, <<>>).a
        f == rune_asm_func(t, 0, 1, 0)
        one == rune_asm_export_func(AsmBody(f.a, f.ret, <<1, 0, 0, 0>>), f.ret, <<102>>)
        bad == rune_asm_func(t, 5, 1, 0)
    IN CASE name = "one" -> one
         [] name = "func_type" ->
                rune_asm_export_func(AsmBody(bad.a, bad.ret, <<1, 0, 0, 0>>), bad.ret, <<102>>)
         [] name = "import_type" -> rune_asm_import(t, <<101>>, <<105>>, 5).a
         [] name = "export_func" -> rune_asm_export_func(one, 9, <<103>>)
         [] name = "export_global" ->
                [one EXCEPT !.exports = Append(@, [kind |-> Enum("RUNE_EXPORT_GLOBAL"),
                                                   idx |-> 3, name |-> <<103>>])]
         [] name = "export_memory" -> rune_asm_export_memory(one, <<109>>)
         [] name = "memory" ->
                rune_asm_export_memory(rune_asm_memory(one, 1, 0), <<109>>)
         [] name = "init" -> rune_asm_export_func(one, f.ret, InitName)
         [] name = "full" ->
                rune_asm_data(
                    rune_asm_global(
                        rune_asm_global(rune_asm_memory(AsmProgram(<<"import", "func">>).a,
                                                        1, 2),
                                        Enum("RUNE_TYPE_I32"), TRUE, rune_i32(7)),
                        Enum("RUNE_TYPE_I64"), FALSE, rune_i64(-2)),
                    1, <<5, 6>>)

AsmOtherNames ==
    {"one", "func_type", "import_type", "export_func", "export_global",
     "export_memory", "memory", "init", "full"}

\* a container put together section by section, each <<id, declared size, body>>
\* written as emit_section writes it: sections in another order than
\* rune_asm_finalize's, sections of two assemblers, a declared size that is not
\* the length of the body, an ID that is no section's, counts that are too large
Made(name) ==
    LET a1 == AsmProgram(<<"import", "func">>).a
        a2 == AsmProgram(<<"import", "func", "func">>).a
        one == AsmOther("one")
        mem == AsmOther("memory")
        S(a, n) == <<Enum(n), Len(SectionBody(a, Enum(n))), SectionBody(a, Enum(n))>>
        D(a, n, delta) == <<Enum(n), Len(SectionBody(a, Enum(n))) + delta,
                            SectionBody(a, Enum(n))>>
    IN CASE name = "func_first" ->
                <<S(a2, "RUNE_SECT_TYPE"), S(a2, "RUNE_SECT_FUNC"), S(a2, "RUNE_SECT_IMPORT"),
                  S(a2, "RUNE_SECT_EXPORT"), S(a1, "RUNE_SECT_CODE")>>
         [] name = "func_first_bad" ->
                <<S(a2, "RUNE_SECT_TYPE"), S(a2, "RUNE_SECT_FUNC"), S(a2, "RUNE_SECT_IMPORT"),
                  S(a2, "RUNE_SECT_EXPORT"), S(a2, "RUNE_SECT_CODE")>>
         [] name = "code_first" ->
                <<S(a1, "RUNE_SECT_TYPE"), S(a1, "RUNE_SECT_IMPORT"), S(a1, "RUNE_SECT_CODE"),
                  S(a1, "RUNE_SECT_FUNC")>>
         [] name = "code_only" ->
                <<S(a1, "RUNE_SECT_TYPE"), S(a1, "RUNE_SECT_IMPORT"),
                  <<Enum("RUNE_SECT_CODE"), 12, Push(-1, 4) \o Push(4, 4) \o <<1, 0, 0, 0>>>>>>
         [] name = "func_wrap" ->
                <<S(a1, "RUNE_SECT_TYPE"), S(a1, "RUNE_SECT_IMPORT"),
                  <<Enum("RUNE_SECT_FUNC"), 8, Push(-1, 4) \o <<0, 0, 1, 0>>>>>>
         [] name = "odd_code" ->
                <<S(one, "RUNE_SECT_TYPE"), S(one, "RUNE_SECT_FUNC"),
                  <<Enum("RUNE_SECT_CODE"), 11, Push(1, 4) \o Push(3, 4) \o <<1, 0, 0>>>>>>
         [] name = "short" ->
                <<D(mem, "RUNE_SECT_MEMORY", -2), S(mem, "RUNE_SECT_EXPORT")>>
         [] name = "short_type" ->
                <<D(mem, "RUNE_SECT_TYPE", -6), S(mem, "RUNE_SECT_MEMORY")>>
         [] name = "padded" ->
                <<<<Enum("RUNE_SECT_MEMORY"), 6, SectionBody(mem, Enum("RUNE_SECT_MEMORY"))
                                                  \o <<7, 7>>>>,
                  S(mem, "RUNE_SECT_EXPORT")>>
         [] name = "long" ->
                <<D(mem, "RUNE_SECT_MEMORY", 2), S(mem, "RUNE_SECT_EXPORT")>>
         [] name = "huge" ->
                <<<<Enum("RUNE_SECT_MEMORY"), -1, SectionBody(mem, Enum("RUNE_SECT_MEMORY"))>>,
                  S(mem, "RUNE_SECT_EXPORT")>>
         [] name = "unknown" -> <<<<9, 3, <<1, 2, 3>>>>, S(mem, "RUNE_SECT_MEMORY")>>
         [] name = "unknown_zero" -> <<<<0, 0, <<>>>>, S(mem, "RUNE_SECT_MEMORY")>>
         [] name = "unknown_long" -> <<S(mem, "RUNE_SECT_MEMORY"), <<9, 10, <<1, 2, 3>>>>>>
         [] name = "truncated" -> <<<<Enum("RUNE_SECT_MEMORY"), 4, <<1, 0>>>>>>
         [] name = "header" -> <<S(mem, "RUNE_SECT_MEMORY"), <<Enum("RUNE_SECT_TYPE")>>>>
         [] name = "types" ->
                <<<<Enum("RUNE_SECT_TYPE"), 4, Push(RUNE_MAX_FUNCS + 1, 4)>>>>
         [] name = "params" ->
                <<<<Enum("RUNE_SECT_TYPE"), 6, Push(1, 4) \o <<RUNE_MAX_PARAMS + 1, 0>>>>>>
         [] name = "typed" ->
                <<<<Enum("RUNE_SECT_TYPE"), 9,
                    Push(1, 4) \o <<2, 1, Enum("RUNE_TYPE_I32"), Enum("RUNE_TYPE_I32"),
                                    Enum("RUNE_TYPE_I64")>>>>>>
         [] name = "imports" ->
                <<<<Enum("RUNE_SECT_IMPORT"), 4, Push(RUNE_MAX_FUNCS + 1, 4)>>>>
         [] name = "funcs" ->
                <<<<Enum("RUNE_SECT_FUNC"), 4, Push(RUNE_MAX_FUNCS + 1, 4)>>>>
         [] name = "globals" ->
                <<<<Enum("RUNE_SECT_GLOBAL"), 4, Push(RUNE_MAX_GLOBALS + 1, 4)>>>>
         [] name = "global_type" ->
                <<<<Enum("RUNE_SECT_GLOBAL"), 14, Push(1, 4) \o <<5, 0>> \o Push(0, 4)
                                                  \o Push(0, 4)>>>>
         [] name = "exports" -> <<<<Enum("RUNE_SECT_EXPORT"), 4, Push(65537, 4)>>>>
         [] name = "export_name" ->
                <<<<Enum("RUNE_SECT_EXPORT"), 10, Push(1, 4) \o <<0>> \o Push(0, 4) \o <<3>>>>>>
         [] name = "datas" -> <<<<Enum("RUNE_SECT_DATA"), 4, Push(4097, 4)>>>>
         [] name = "data_size" ->
                <<<<Enum("RUNE_SECT_DATA"), 13, Push(1, 4) \o <<0>> \o Push(0, 4)
                                                \o Push(-1, 4)>>>>

MadeNames ==
    {"func_first", "func_first_bad", "code_first", "code_only", "func_wrap", "odd_code",
     "short", "short_type", "padded", "long", "huge", "unknown", "unknown_zero",
     "unknown_long", "truncated", "header", "types", "params", "typed", "imports",
     "funcs", "globals", "global_type", "exports", "export_name", "datas", "data_size"}

\* the containers loaded: what rune_asm_finalize emits for the assemblers of
\* AsmPrograms and AsmOther, and the containers of Made
LoadInputs ==
    {[kind |-> "program", prog |-> p] : p \in AsmPrograms}
        \cup {[kind |-> "other", name |-> n] : n \in AsmOtherNames}
        \cup {[kind |-> "made", name |-> n] : n \in MadeNames}

\* the bytes after the file header of the container in
Container(in) ==
    LET Sect(s) == IF Len(s) = 1 THEN s ELSE emit_section(s[1], s[2], s[3])
    IN CASE in.kind = "program" -> rune_asm_finalize(AsmProgram(in.prog).a)
         [] in.kind = "other" -> rune_asm_finalize(AsmOther(in.name))
         [] in.kind = "made" -> Flat(Made(in.name), Sect)

\* rune_module_load has passed the checks of the file header and is about to
\* read the first section; no VM exists
InitLoad ==
    /\ InitWith(NewModule, [stack_size |-> StackSize, memory_limit |-> 0, fuel_limit |-> 0])
    /\ other = NoOther
    /\ \E in \in LoadInputs :
           loading = [NoLoad EXCEPT !.raw = Container(in), !.at = "sections", !.src = in]

\* the while condition of the section loop
MoreSections(l) == ~l.r.error /\ l.r.pos < Len(l.raw) /\ l.err = RUNE_OK

\* no VM is touched
VmIdle ==
    UNCHANGED <<mod, cfg, host_fns, memory, memory_pages, memory_max, globals, frames,
                frame_count, arg_buf, arg_count, error_buf, fuel_used, initialized,
                cstack, last, access, dispatched, ops, other>>

\* one turn of the section loop; a write outside the function array either goes
\* unnoticed or ends the process
ModuleLoadSection ==
    /\ loading.at = "sections"
    /\ MoreSections(loading)
    /\ LET l == LoadSection(loading)
       IN \/ loading' = [l EXCEPT !.ub = FALSE]
          \/ l.ub /\ loading' = [l EXCEPT !.at = "crashed"]
    /\ VmIdle

\* the end of rune_module_load
ModuleLoadFinish ==
    /\ loading.at = "sections"
    /\ ~MoreSections(loading)
    /\ loading' = LoadFinish(loading, InitName)
    /\ VmIdle

NextLoad == ModuleLoadSection \/ ModuleLoadFinish

SpecLoad == InitLoad /\ [][NextLoad]_vars

(* ------------- argument staging, globals and MEM_GROW on their own ----- *)

\* the export names the host calls
OpsCallNames == {"stage", "increment", "ldglobal_bad", "stglobal_bad", "grow"}

\* the argument vectors the host passes: for grow also the page count 0xFFFFFFFF
OpsArgs(name) ==
    IF name = "grow" THEN {<<rune_i32(1)>>, <<rune_i32(-1)>>} ELSE ExportArgs(name)

\* a VM for the module without imports, metering off or on
InitOps ==
    /\ \E fuel \in {0, FuelLimit} :
           InitWith(ModuleOf("noimp"),
                    [stack_size |-> StackSize, memory_limit |-> 4 * RUNE_PAGE_SIZE,
                     fuel_limit |-> fuel])
    /\ other = NoOther
    /\ loading = NoLoad

RuneVmCallOps ==
    /\ HostOp
    /\ \E name \in OpsCallNames : \E argv \in OpsArgs(name) :
           Commit(rune_vm_call(Start, name, argv))

NextOps ==
    \/ RuneVmInit
    \/ RuneVmCallOps
    \/ RuneVmRefuel
    \/ Step
    \/ ExecDone

SpecOps == InitOps /\ [][NextOps]_vars

(* ----------------------- duplicate registrations ---------------------- *)

\* two callbacks registered for the import test::sink
DupInputs == {<<"test", "sink", "f1">>, <<"test", "sink", "f2">>}

\* a VM for the module whose _init calls the import through CALL and whose
\* call_sink calls it through CALL_HOST, metering off
InitReg ==
    /\ InitWith(ModuleOf("init"),
                [stack_size |-> StackSize, memory_limit |-> 4 * RUNE_PAGE_SIZE,
                 fuel_limit |-> 0])
    /\ other = NoOther
    /\ loading = NoLoad

RuneVmRegisterDup ==
    /\ HostOp
    /\ ~initialized => Len(host_fns) < MaxHostFns
    /\ \E in \in DupInputs : Commit(rune_vm_register(Cur, in[1], in[2], in[3]))

RuneVmCallReg ==
    /\ HostOp
    /\ \E name \in {"call_sink", "sink"} : \E argv \in ExportArgs(name) :
           Commit(rune_vm_call(Start, name, argv))

NextReg ==
    \/ RuneVmRegisterDup
    \/ RuneVmInit
    \/ RuneVmCallReg
    \/ HostReturn
    \/ Step
    \/ ExecDone

SpecReg == InitReg /\ [][NextReg]_vars

(* ----------------------- functions entering functions ----------------- *)

\* the argument vectors the host passes to an export of ModWindow
WindowArgs == {<<>>, <<rune_i32(5)>>, <<rune_i32(5), rune_i32(6)>>}

\* a VM for the module of calls, metering off
InitWindow ==
    /\ InitWith(ModuleOf("window"),
                [stack_size |-> StackSize, memory_limit |-> RUNE_PAGE_SIZE,
                 fuel_limit |-> 0])
    /\ other = NoOther
    /\ loading = NoLoad

RuneVmCallWindow ==
    /\ HostOp
    /\ \E i \in 1..Len(WindowNames) : \E argv \in WindowArgs :
           Commit(rune_vm_call(Start, WindowNames[i], argv))

NextWindow ==
    \/ RuneVmInit
    \/ RuneVmCallWindow
    \/ Step

SpecWindow == InitWindow /\ [][NextWindow]_vars

(* --------------------------- staging arguments ------------------------ *)

\* the argument vectors the host passes to an export of ModStage
StageArgs == {<<rune_i32(5), rune_i32(6)>>, <<rune_i32(5), rune_i32(0)>>}

\* a VM for the module of staging, metering off
InitStage ==
    /\ InitWith(ModuleOf("stage"),
                [stack_size |-> StackSize, memory_limit |-> RUNE_PAGE_SIZE,
                 fuel_limit |-> 0])
    /\ other = NoOther
    /\ loading = NoLoad

RuneVmCallStage ==
    /\ HostOp
    /\ \E i \in 1..Len(StageNames) : \E argv \in StageArgs :
           Commit(rune_vm_call(Start, StageNames[i], argv))

NextStage ==
    \/ RuneVmInit
    \/ RuneVmCallStage
    \/ Step

SpecStage == InitStage /\ [][NextStage]_vars

(* ---------------------------- ends of the code ------------------------ *)

\* a VM for the module of code ends, metering off or on
InitFetch ==
    /\ \E fuel \in {0, FuelLimit} :
           InitWith(ModuleOf("fetch"),
                    [stack_size |-> StackSize, memory_limit |-> RUNE_PAGE_SIZE,
                     fuel_limit |-> fuel])
    /\ other = NoOther
    /\ loading = NoLoad

RuneVmCallFetch ==
    /\ HostOp
    /\ \E i \in 1..Len(FetchNames) : \E argv \in {<<>>, <<rune_i32(3)>>} :
           Commit(rune_vm_call(Start, FetchNames[i], argv))

NextFetch ==
    \/ RuneVmInit
    \/ RuneVmCallFetch
    \/ Step

SpecFetch == InitFetch /\ [][NextFetch]_vars

(* --------------------------- function indices ------------------------- *)

\* a VM for the module of function indices, metering off or on
InitIndex ==
    /\ \E fuel \in {0, FuelLimit} :
           InitWith(ModuleOf("index"),
                    [stack_size |-> StackSize, memory_limit |-> RUNE_PAGE_SIZE,
                     fuel_limit |-> fuel])
    /\ other = NoOther
    /\ loading = NoLoad

\* what rune_vm_call can leave: the value it computes, and, when vm_exec has
\* undefined behaviour, also the death of the process
CallOutcomes(s, name, argv) ==
    LET r == rune_vm_call(s, name, argv)
        dead == [Activation("exec", "vm_call", 0, s.frame_count, 0 - 1, argv)
                     EXCEPT !.at = "crashed"]
    IN IF r.ub THEN {[r EXCEPT !.ub = FALSE], [s EXCEPT !.cstack = Append(@, dead)]}
       ELSE {r}

RuneVmCallIndex ==
    /\ HostOp
    /\ \E i \in 1..Len(IndexNames) : \E argv \in {<<>>, <<rune_i32(3)>>} :
           \E r \in CallOutcomes(Start, IndexNames[i], argv) : Commit(r)

NextIndex ==
    \/ RuneVmInit
    \/ RuneVmCallIndex
    \/ RuneVmRefuel
    \/ Step

SpecIndex == InitIndex /\ [][NextIndex]_vars

(* ------------------------ the size of the memory ---------------------- *)

\* the modules and memory limits of the VMs whose memory size is followed
SizeInputs == {"noimp", "nomax", "nomem", "shrunk"} \X {RUNE_PAGE_SIZE, 2 * RUNE_PAGE_SIZE}

\* a VM for one of these, metering off
InitSize ==
    /\ \E in \in SizeInputs :
           InitWith(ModuleOf(in[1]),
                    [stack_size |-> StackSize, memory_limit |-> in[2], fuel_limit |-> 0])
    /\ other = NoOther
    /\ loading = NoLoad

\* the host calls grow with a page count (0xFFFFFFFF among them)
RuneVmCallSize ==
    /\ HostOp
    /\ \E k \in {0, 1, 2, 0 - 1} : Commit(rune_vm_call(Start, "grow", <<rune_i32(k)>>))

NextSize ==
    \/ RuneVmInit
    \/ RuneVmCallSize
    \/ Step

SpecSize == InitSize /\ [][NextSize]_vars

(* --------------------------- immutable globals ------------------------ *)

\* a VM for the module whose global is immutable, metering off or on
InitConst ==
    /\ \E fuel \in {0, FuelLimit} :
           InitWith(ModuleOf("const"),
                    [stack_size |-> StackSize, memory_limit |-> 4 * RUNE_PAGE_SIZE,
                     fuel_limit |-> fuel])
    /\ other = NoOther
    /\ loading = NoLoad

RuneVmCallConst ==
    /\ HostOp
    /\ \E name \in {"increment", "stglobal_bad", "div"} : \E argv \in ExportArgs(name) :
           Commit(rune_vm_call(Start, name, argv))

NextConst ==
    \/ RuneVmInit
    \/ RuneVmCallConst
    \/ RuneVmRefuel
    \/ Step

SpecConst == InitConst /\ [][NextConst]_vars

(* ------------------------ two VMs of one module ----------------------- *)

\* the export names the host calls on the two VMs
TwoCallNames == {"store_load", "outer_div", "increment"}

\* rune_vm_new twice for the module without imports, metering off
InitTwo ==
    /\ InitWith(ModuleOf("noimp"),
                [stack_size |-> StackSize, memory_limit |-> 4 * RUNE_PAGE_SIZE,
                 fuel_limit |-> 0])
    /\ other = [vm |-> Cur, id |-> 2, cmp |-> <<>>]
    /\ loading = NoLoad

\* the host is not comparing the two VMs
NoCompare == other.cmp = <<>>

\* the VM values a and b agree on the memory contents and page count, the
\* globals, the fuel counter and budget, the staged arguments and the host table
\* (the module is the one both were created for)
SameState(a, b) ==
    /\ a.memory = b.memory
    /\ a.memory_pages = b.memory_pages
    /\ a.globals = b.globals
    /\ a.fuel_used = b.fuel_used
    /\ a.cfg.fuel_limit = b.cfg.fuel_limit
    /\ a.arg_buf = b.arg_buf
    /\ a.arg_count = b.arg_count
    /\ a.host_fns = b.host_fns

TwoRegister ==
    /\ NoCompare
    /\ HostOp
    /\ ~initialized => Len(host_fns) < 1
    /\ Commit(rune_vm_register(Cur, "test", "sink", "f1"))

TwoInit == NoCompare /\ RuneVmInit

TwoCall ==
    /\ NoCompare
    /\ HostOp
    /\ \E name \in TwoCallNames : \E argv \in ExportArgs(name) :
           Commit(rune_vm_call(Start, name, argv))

TwoRefuel == NoCompare /\ RuneVmRefuel

\* with both VMs idle and in the same state, the host makes the same rune_vm_call
\* on each of them; from here on it only lets the two calls run
TwoCompare ==
    /\ NoCompare
    /\ HostOp
    /\ cstack = <<>>
    /\ other.vm.cstack = <<>>
    /\ SameState(Cur, other.vm)
    /\ \E name \in TwoCallNames : \E argv \in ExportArgs(name) :
           LET a == rune_vm_call(Start, name, argv)
               b == rune_vm_call([other.vm EXCEPT !.dispatched.call = 0], name, argv)
           IN /\ Load(a)
              /\ mod' = a.mod
              /\ other' = [other EXCEPT !.vm = b, !.cmp = <<name, argv>>]

\* the host (or the scheduler of its threads) turns to the other VM
Switch ==
    /\ Load(other.vm)
    /\ mod' = mod
    /\ other' = [other EXCEPT !.vm = [Cur EXCEPT !.access = access], !.id = 3 - @]
    /\ ops' = ops

NextTwo ==
    \/ TwoRegister
    \/ TwoInit
    \/ TwoCall
    \/ TwoRefuel
    \/ TwoCompare
    \/ Switch
    \/ Step
    \/ ExecDone

SpecTwo == InitTwo /\ [][NextTwo]_vars

(* ------------------------------- claims ------------------------------- *)

\* the size in bytes of the current linear memory
MemBytes == memory_pages * RUNE_PAGE_SIZE

\* the interpreter is about to dispatch an instruction (the loop test and the
\* fuel tick pass)
AboutToDispatch ==
    /\ cstack # <<>>
    /\ Top(cstack).kind = "exec"
    /\ Top(cstack).at = "run"
    /\ frames[Top(cstack).frame].pc \in DOMAIN M.funcs[Top(cstack).func].code
    /\ cfg.fuel_limit > 0 => fuel_used < cfg.fuel_limit

\* the ranges <<off, len>> the instruction about to be dispatched accesses
GuestRanges ==
    LET a == Top(cstack)
        fr == frames[a.frame]
        code == M.funcs[a.func].code
        ins == code[fr.pc]
        r == fr.regs
        ea == Add32(r[ins.s1].v, code[fr.pc + 1])
    IN CASE ins.op \in {"LOAD8", "LOAD8S", "STORE8"} -> {<<ea, 1>>}
         [] ins.op \in {"LOAD16", "LOAD16S", "STORE16"} -> {<<ea, 2>>}
         [] ins.op \in {"LOAD32", "STORE32"} -> {<<ea, 4>>}
         [] ins.op \in {"LOAD64", "STORE64"} -> {<<ea, 8>>}
         [] ins.op = "MEM_COPY" -> {<<r[ins.dst].v, r[ins.s2].v>>, <<r[ins.s1].v, r[ins.s2].v>>}
         [] ins.op = "MEM_FILL" -> {<<r[ins.dst].v, r[ins.s2].v>>}
         [] OTHER -> {}

\* the range <<off, len>> of unsigned 32-bit numbers ends beyond the linear memory
Beyond(rg) == rg[1] < 0 \/ rg[2] < 0 \/ rg[1] + rg[2] > MemBytes

\* the running activation returns err to its caller in this step
Raises(err) ==
    LET a == Top(cstack)
    IN IF a.caller \in {"vm_call", "init"}
       THEN last'.n = last.n + 1 /\ last'.err = err
       ELSE /\ Len(cstack') = Len(cstack) - 1
            /\ Top(cstack').result = err
            /\ Top(cstack').at = "done"

\* a host API call named op completes in this step
Completes(op) == last'.n = last.n + 1 /\ last'.op = op

\* C1, guest part of one step: an instruction whose range ends beyond the linear
\* memory returns BOUNDS and leaves the memory as it was
C1_GuestStep ==
    (AboutToDispatch /\ \E rg \in GuestRanges : Beyond(rg))
        => (Raises(RUNE_ERR_BOUNDS) /\ memory' = memory /\ access' = {})

\* C1, host part of one step: rune_vm_mem_read / rune_vm_mem_write on a range
\* that ends beyond the linear memory return BOUNDS and leave the memory as it was
C1_HostStep ==
    (Completes("mem_read") \/ Completes("mem_write"))
        => (Beyond(last'.req.args)
               => (last'.err = RUNE_ERR_BOUNDS /\ memory' = memory /\ access' = {}))

\* C1: every guest memory access and every host accessor call on a range
\* [off, off+len) with off+len > memory_pages*RUNE_PAGE_SIZE produces BOUNDS, and
\* no byte outside [0, memory_pages*RUNE_PAGE_SIZE) is ever read or written.
C1_BoundsSafety ==
    /\ [](access \subseteq 0..(MemBytes - 1))
    /\ [][C1_GuestStep /\ C1_HostStep]_vars

\* C1 witness: a guest STORE32 that straddles the end of the memory has returned
\* BOUNDS to the host
C1_Witness ==
    /\ last.op = "vm_call"
    /\ last.err = RUNE_ERR_BOUNDS
    /\ last.req.func >= 0
    /\ M.funcs[last.req.func].code = Arr(CodeStoreLoad)
    /\ last.req.args = <<rune_i32(RUNE_PAGE_SIZE - 3), rune_i32(5)>>

\* the number of vm_exec activations of guest functions on the C call stack
ExecDepth == Cardinality({i \in 1..Len(cstack) : cstack[i].kind = "exec"})

\* C2: frame_count after a vm_call that returned (with OK or any error) equals
\* frame_count before it, 0 for a top-level call; every frame pushed on function
\* entry is popped on return or trap, at every nesting depth: the frames in use
\* are those of the vm_exec activations still running.
C2_StackDiscipline == frame_count = ExecDepth

\* the last completed host API call is a top-level rune_vm_call of the export
\* with function body code and arguments args
TopLevelCallOf(code, args) ==
    /\ cstack = <<>>
    /\ last.op = "vm_call"
    /\ last.req.func >= 0
    /\ M.funcs[last.req.func].code = Arr(code)
    /\ last.req.args = args

\* C3: after any number of vm_calls that ended in a trap, in STACKOVERFLOW or in
\* FUEL (followed by vm_refuel), a vm_call of an export that executes without
\* fault returns OK with its normal result: with metering off, a top-level
\* div(6, 2) returns OK and 3.
C3_UsableAfterAbort ==
    (cfg.fuel_limit = 0 /\ TopLevelCallOf(CodeDiv, <<rune_i32(6), rune_i32(2)>>))
        => (last.err = RUNE_OK /\ last.ret = rune_i32(3))

\* C4: on a freshly initialized VM with fuel_limit = N > 0 and no _init, a vm_call
\* of an export that loops forever returns FUEL after exactly N instruction ticks:
\* N instructions have been dispatched and rune_vm_fuel_used reports N.
C4_FuelExactlyN ==
    (ops = 2 /\ TopLevelCallOf(CodeLoop, <<>>) /\ last.err = RUNE_ERR_FUEL)
        => (dispatched.fuel = cfg.fuel_limit /\ fuel_used = cfg.fuel_limit)

\* C5, the counters: under a limit B > 0 the instructions dispatched since the
\* last rune_vm_refuel (or the creation) are the ticks counted, up to B and never
\* more; a call returns FUEL only when B have been dispatched; under a limit of 0
\* no call returns FUEL and the counter stays 0
C5_Accounting ==
    /\ cfg.fuel_limit > 0
           => dispatched.fuel = (IF fuel_used < cfg.fuel_limit THEN fuel_used
                                 ELSE cfg.fuel_limit)
    /\ (last.op \in {"vm_call", "init"} /\ last.err = RUNE_ERR_FUEL)
           => (cfg.fuel_limit > 0 /\ dispatched.fuel = cfg.fuel_limit)
    /\ cfg.fuel_limit = 0 => (fuel_used = 0 /\ dispatched.fuel = 0)

\* C5, one step: rune_vm_refuel(B) leaves the counter 0 and the limit B, and
\* changes nothing else of the VM
C5_RefuelStep ==
    Completes("refuel")
        => /\ fuel_used' = 0
           /\ cfg' = [cfg EXCEPT !.fuel_limit = last'.req.args[1]]
           /\ UNCHANGED <<memory, memory_pages, globals, frames, frame_count, cstack,
                          initialized, host_fns>>

\* C5: rune_vm_refuel(B) resets the fuel counter to 0 and installs B as the limit:
\* after it, in any prior state, the VM dispatches B further instructions before
\* FUEL is raised again; rune_vm_refuel(0) disables metering, so that no later
\* call returns FUEL and the counter no longer changes.
C5_Refuel == []C5_Accounting /\ [][C5_RefuelStep]_vars

\* C5 witness: a VM created with metering off was given a budget by
\* rune_vm_refuel, and a call has used it up and returned FUEL
C5_Witness ==
    /\ mod = ModNoMemory
    /\ TopLevelCallOf(CodeLoop, <<>>)
    /\ last.err = RUNE_ERR_FUEL
    /\ dispatched.fuel = FuelLimit

\* C5 witness of the disabled case: after a FUEL abort rune_vm_refuel(0) was
\* called and a later call has completed with OK
C5_WitnessDisabled ==
    /\ error_buf = "fuel limit exceeded"
    /\ cfg.fuel_limit = 0
    /\ last.op = "vm_call"
    /\ last.err = RUNE_OK
    /\ dispatched.call > 0

\* C6: fuel_limit is the maximum number of instructions per call: with
\* fuel_limit = N > 0 a vm_call that dispatches at most N instructions completes
\* without FUEL, whatever earlier calls have consumed.  div(6, 2) dispatches two
\* instructions.
C6_FuelPerCall ==
    (cfg.fuel_limit >= 2 /\ TopLevelCallOf(CodeDiv, <<rune_i32(6), rune_i32(2)>>))
        => last.err # RUNE_ERR_FUEL

\* some import (module, name) of the module has no host entry with that module
\* and name
SomeImportUnresolved ==
    \E i \in 0..(M.import_count - 1) :
        \A j \in 1..Len(host_fns) :
            <<host_fns[j].module, host_fns[j].name>>
                # <<M.imports[i].module, M.imports[i].name>>

\* C7, one step: rune_vm_init returns NOIMPORT exactly when some import is
\* unresolved, and then it changes nothing of the VM but the error text
C7_InitStep ==
    Completes("init")
        => /\ (last'.err = RUNE_ERR_NOIMPORT) = SomeImportUnresolved
           /\ last'.err = RUNE_ERR_NOIMPORT
                  => /\ ~initialized'
                     /\ dispatched'.call = 0
                     /\ UNCHANGED <<memory, memory_pages, memory_max, globals, frames,
                                    frame_count, fuel_used, host_fns, cstack, initialized>>

\* C7: rune_vm_init returns NOIMPORT whenever at least one import of the module
\* has no registered host entry with the same module and name; the VM then stays
\* uninitialized, no memory or globals are allocated and no guest code runs; the
\* VM remains usable: once the import is registered, rune_vm_init no longer
\* returns NOIMPORT.
C7_UnresolvedImport ==
    /\ []((~initialized /\ error_buf = "unresolved import")
             => (memory = <<>> /\ globals = <<>> /\ cstack = <<>>
                 /\ dispatched.call = 0))
    /\ [][C7_InitStep]_vars

\* C7 witness: rune_vm_init failed with NOIMPORT, the import was registered, and
\* rune_vm_init then succeeded
C7_Witness ==
    /\ mod = ModPlain
    /\ error_buf = "unresolved import"
    /\ last.op = "init"
    /\ last.err = RUNE_OK
    /\ initialized

\* C7 witness of the failure: only an entry of another module with the import's
\* name is registered, and rune_vm_init has returned NOIMPORT
C7_WitnessOtherModule ==
    /\ last.op = "init"
    /\ last.err = RUNE_ERR_NOIMPORT
    /\ host_fns # <<>>

\* C8: whenever rune_vm_init returns a code other than OK (NOIMPORT, OOM, a
\* data-segment error, or an error raised while _init runs), initialized is
\* false afterwards (so that a later rune_vm_call is refused).
C8_FailedInitUninitialized ==
    (last.op = "init" /\ last.err # RUNE_OK) => ~initialized

\* rune_vm_init has been entered and has not returned yet
InitRunning == cstack # <<>> /\ cstack[1].caller = "init"

\* C9: rune_vm_call on a VM whose initialized flag is false returns an error; as
\* long as the flag is false no guest instruction is dispatched, no host callback
\* is invoked and no frame or fuel is used; and the only guest code that runs
\* while rune_vm_init has not returned is _init itself.
C9_NotCallableUnlessInitialized ==
    /\ ~initialized
           => /\ cstack = <<>>
              /\ frame_count = 0
              /\ fuel_used = 0
              /\ dispatched.call = 0
              /\ globals = <<>>
              /\ last.op = "vm_call" => last.err = RUNE_ERR_BADMODULE
    /\ InitRunning
           => \A i \in 1..Len(cstack) :
                  cstack[i].kind = "exec" => cstack[i].func = M.init_func

\* C10, one step: once initialized is set, a completing rune_vm_register returns
\* an error and no step changes the host function table
C10_Step ==
    initialized
        => /\ host_fns' = host_fns
           /\ Completes("register") => last'.err # RUNE_OK

\* C10: once rune_vm_init has set initialized, every rune_vm_register call
\* returns an error and leaves the host function table unchanged, so the table is
\* read-only during all guest execution, including calls from inside a host
\* callback.
C10_RegisterAfterInit == [][C10_Step]_vars

\* C10 witness: a host callback invoked by running guest code has called
\* rune_vm_register and was refused
C10_Witness ==
    /\ cstack # <<>>
    /\ Top(cstack).kind = "host"
    /\ last.op = "register"
    /\ last.err = RUNE_ERR_BADMODULE
    /\ host_fns # <<>>

\* the instruction word the interpreter is about to dispatch
NextIns ==
    LET a == Top(cstack)
    IN M.funcs[a.func].code[frames[a.frame].pc]

\* C12, one step of the interpreter: a CALL dispatched when every frame is in use
\* pushes nothing and leaves its caller with STACKOVERFLOW, on its way to done:
C12_CallStep ==
    (AboutToDispatch /\ frame_count = cfg.stack_size /\ NextIns.op = "CALL")
        => /\ frame_count' = frame_count
           /\ Len(cstack') = Len(cstack)
           /\ Top(cstack').at = "done"
           /\ Top(cstack').result = RUNE_ERR_STACKOVERFLOW

\* C12, one step of the host: with every frame in use no host API call starts an
\* activation, and a rune_vm_call of an existing export returns STACKOVERFLOW at
\* once (cstack' = cstack tells it from the return of a callback that was
\* itself the target of an earlier rune_vm_call)
C12_HostStep ==
    (HostTurn /\ frame_count = cfg.stack_size)
        => /\ Len(cstack') <= Len(cstack)
           /\ (Completes("vm_call") /\ cstack' = cstack /\ last'.req.func >= 0)
                  => (last'.err = RUNE_ERR_STACKOVERFLOW /\ frame_count' = frame_count)

\* C12, one step of an aborting activation: it hands its result to its caller
\* unchanged, without dispatching an instruction
C12_AbortStep ==
    (cstack # <<>> /\ Top(cstack).kind = "exec" /\ Top(cstack).at = "done")
        => (Raises(Top(cstack).result) /\ dispatched' = dispatched)

\* C12: in every reachable state frame_count <= stack_size; a function entry
\* attempted when frame_count = stack_size (by CALL, or by a re-entrant
\* rune_vm_call from a host callback) returns STACKOVERFLOW without pushing a
\* frame, and the error aborts the whole call chain up to rune_vm_call.
C12_StackBound ==
    /\ [](frame_count <= cfg.stack_size)
    /\ [][C12_CallStep /\ C12_HostStep /\ C12_AbortStep]_vars

\* C12 witness: a recursion has run into the stack bound and rune_vm_call has
\* returned STACKOVERFLOW after dispatching a CALL in every frame
C12_Witness ==
    /\ TopLevelCallOf(CodeRec(last.req.func), <<>>)
    /\ last.err = RUNE_ERR_STACKOVERFLOW
    /\ dispatched.call = cfg.stack_size

\* C12 witness of the re-entrant case: a rune_vm_call made from inside a host
\* callback with every frame in use has returned STACKOVERFLOW
C12_WitnessReentrant ==
    /\ cstack # <<>>
    /\ Top(cstack).kind = "host"
    /\ frame_count = cfg.stack_size
    /\ last.op = "vm_call"
    /\ last.req.func >= 0
    /\ last.err = RUNE_ERR_STACKOVERFLOW

\* a host callback invoked by CALL or CALL_HOST returns in this step
HostCallbackReturns ==
    /\ cstack # <<>>
    /\ Top(cstack).kind = "host"
    /\ Top(cstack).caller \in {"op_call", "call_host"}
    /\ Len(cstack') = Len(cstack) - 1

\* C16, the step in which the callback returns: with OK the caller continues with
\* the callback's value in R[dst] and its other registers as they were; with any
\* other code the caller is left aborting with that code and no register written
C16_ReturnStep ==
    HostCallbackReturns
        => LET h == Top(cstack)
               f == cstack[Len(cstack) - 1].frame
           IN \E r \in HostResults :
                 /\ Top(cstack') =
                        IF r[1] = RUNE_OK THEN cstack[Len(cstack) - 1]
                        ELSE [cstack[Len(cstack) - 1] EXCEPT !.result = r[1],
                                                            !.at = "done"]
                 /\ frames' =
                        IF r[1] = RUNE_OK THEN [frames EXCEPT ![f].regs[h.dst] = r[2]]
                        ELSE frames
                 /\ UNCHANGED <<frame_count, memory, globals, dispatched, last>>

\* C16, the steps after a failed callee: the aborting activation dispatches no
\* instruction and hands the code unchanged to its caller, up to the host
C16_PropagateStep ==
    (cstack # <<>> /\ Top(cstack).kind = "exec" /\ Top(cstack).at = "done")
        => /\ dispatched' = dispatched
           /\ UNCHANGED <<frames, memory, globals>>
           /\ IF Top(cstack).caller \in {"vm_call", "init"}
              THEN Completes(Top(cstack).caller) /\ last'.err = Top(cstack).result
              ELSE /\ Top(cstack').at = "done"
                   /\ Top(cstack').result = Top(cstack).result

\* C16: when a host callback invoked by CALL or CALL_HOST returns OK, execution
\* continues with the callback's result in R[dst] and all other registers of the
\* caller unchanged; when it returns anything else, no further guest instruction
\* executes, R[dst] is not written, and that exact code becomes the result of the
\* enclosing rune_vm_call.
C16_HostReturnCode == [][C16_ReturnStep /\ C16_PropagateStep]_vars

\* C16 witness: a callback invoked by CALL_HOST has returned an error and the
\* enclosing rune_vm_call has returned that code
C16_Witness ==
    /\ TopLevelCallOf(CodeCallSink, <<rune_i32(3)>>)
    /\ last.err = RUNE_ERR_HOST
    /\ dispatched.call = 2

\* C16 witness of the OK case: the callback returned OK and call_sink ran on to
\* its RET
C16_WitnessOk ==
    /\ TopLevelCallOf(CodeCallSink, <<rune_i32(3)>>)
    /\ last.err = RUNE_OK
    /\ last.ret = rune_i32(3)
    /\ dispatched.call = 3

\* C13, one step: MEM_GROW with the requested count k (unsigned: a negative i32
\* is at least 2^31 and never fits) adds k to memory_pages and yields the old
\* count when memory_pages + k <= memory_max, else leaves memory_pages as it was
\* and yields -1
C13_GrowStep ==
    (AboutToDispatch /\ NextIns.op = "MEM_GROW")
        => LET f == Top(cstack).frame
               k == frames[f].regs[NextIns.s1].v
               res == frames'[f].regs[NextIns.dst]
           IN IF k >= 0 /\ memory_pages + k <= memory_max
              THEN memory_pages' = memory_pages + k /\ res = rune_i32(memory_pages)
              ELSE memory_pages' = memory_pages /\ res = rune_i32(-1)

\* C13: for every 32-bit requested page count MEM_GROW either increases
\* memory_pages by exactly that count (when the sum is within memory_max) or
\* leaves it unchanged and returns -1; it never decreases memory_pages.
C13_GrowMonotonic == [][C13_GrowStep]_vars

\* C15, one step: the instruction dispatched is a CALL or a CALL_HOST and leaves
\* arg_count at 0, whatever it returns
C15_CallStep ==
    (AboutToDispatch /\ NextIns.op \in {"CALL", "CALL_HOST"}) => arg_count' = 0

\* C15: immediately after every executed CALL or CALL_HOST, whatever its outcome,
\* arg_count is 0.
C15_ArgCountReset == [][C15_CallStep]_vars

\* C11: when the same (module, name) pair is registered more than once, the
\* callback invoked for that import, via CALL or CALL_HOST, is the one of the last
\* registration: every running host callback is the fn of the last entry of the
\* host table with its module and name.
C11_LastWins ==
    \A i \in 1..Len(cstack) :
        cstack[i].kind = "host"
            => LET e == host_fns[cstack[i].host]
                   same == {j \in 1..Len(host_fns) :
                               /\ host_fns[j].module = e.module
                               /\ host_fns[j].name = e.name}
               IN \A j \in same : (\A k \in same : k <= j) => e.fn = host_fns[j].fn

\* C14, one ARG step: ARG slot, reg puts R[reg] in the slot and leaves every
\* other slot as it was; arg_count becomes at least slot + 1
C14_ArgStep ==
    (AboutToDispatch /\ NextIns.op = "ARG")
        => LET slot == NextIns.dst
               reg == NextIns.s1
           IN /\ arg_buf'[slot] = frames[Top(cstack).frame].regs[reg]
              /\ \A j \in DOMAIN arg_buf : j # slot => arg_buf'[j] = arg_buf[j]
              /\ arg_count' = IF slot >= arg_count THEN slot + 1 ELSE arg_count

\* C14, one CALL / CALL_HOST step that enters a callee: the callee receives the
\* first arg_count slots of the staging buffer
C14_CallStep ==
    (AboutToDispatch /\ NextIns.op \in {"CALL", "CALL_HOST"} /\ Len(cstack') > Len(cstack))
        => Top(cstack').args = [i \in 1..arg_count |-> arg_buf[i - 1]]

\* C14: ARG slot, reg writes R[reg] into the slot and changes no other slot; the
\* next CALL / CALL_HOST passes max(slot)+1 arguments, argument i being the value
\* most recently staged into slot i.
C14_ArgStaging == [][C14_ArgStep /\ C14_CallStep]_vars

\* the immediate operand of the instruction about to be dispatched
NextImm ==
    LET a == Top(cstack)
    IN M.funcs[a.func].code[frames[a.frame].pc + 1]

\* the module's initial values of the globals
GlobalTemplates == [i \in 0..(M.global_count - 1) |-> M.globals[i].value]

\* the host calls rune_vm_init in this step
InitStep ==
    /\ ops' = ops + 1
    /\ \/ Completes("init")
       \/ Len(cstack') > Len(cstack) /\ Top(cstack').caller = "init"

\* C20, one LDGLOBAL step: the register receives the global's current value; an
\* index of global_count or more returns BOUNDS; no global changes
C20_LoadStep ==
    (AboutToDispatch /\ NextIns.op = "LDGLOBAL")
        => /\ globals' = globals
           /\ IF NextImm >= 0 /\ NextImm < M.global_count
              THEN frames'[Top(cstack).frame].regs[NextIns.dst] = globals[NextImm]
              ELSE Raises(RUNE_ERR_BOUNDS)

\* C20, one STGLOBAL step: the global receives the register's value and no other
\* global changes; an index of global_count or more returns BOUNDS and no global
\* changes
C20_StoreStep ==
    (AboutToDispatch /\ NextIns.op = "STGLOBAL")
        => IF NextImm >= 0 /\ NextImm < M.global_count
           THEN globals' = [globals EXCEPT ![NextImm] =
                                frames[Top(cstack).frame].regs[NextIns.s1]]
           ELSE Raises(RUNE_ERR_BOUNDS) /\ globals' = globals

\* C20, one rune_vm_init step: the globals are the module's initial values, unless
\* the call failed before it copied them
C20_InitStep ==
    InitStep
        => \/ globals' = GlobalTemplates
           \/ Completes("init") /\ last'.err # RUNE_OK /\ globals' = globals

\* C20, every other step: the globals stay as they are
C20_KeepStep ==
    globals' # globals => (InitStep \/ (AboutToDispatch /\ NextIns.op = "STGLOBAL"))

\* C20: rune_vm_init sets each global to the module's initial value; afterwards
\* the value a STGLOBAL wrote is what every later LDGLOBAL of that global reads,
\* in the same call or a later one, until the next STGLOBAL of it; LDGLOBAL and
\* STGLOBAL with an index >= global_count return BOUNDS and change no global.
C20_GlobalsPersist ==
    [][C20_LoadStep /\ C20_StoreStep /\ C20_InitStep /\ C20_KeepStep]_vars

\* C20 witness: the third consecutive call of increment has returned 3
C20_Witness ==
    /\ TopLevelCallOf(CodeIncrement, <<>>)
    /\ last.err = RUNE_OK
    /\ last.ret = rune_i32(3)
    /\ globals[0] = rune_i32(3)

\* C20 witness: a STGLOBAL with the index global_count has returned BOUNDS
C20_WitnessBounds ==
    /\ TopLevelCallOf(CodeStGlobal(M.global_count), <<rune_i32(5)>>)
    /\ last.err = RUNE_ERR_BOUNDS
    /\ globals = GlobalTemplates

\* q is the quotient of a by b (b # 0) truncated toward zero, INT32_MIN / -1
\* wrapping to INT32_MIN
IsQuotient(a, b, q) ==
    LET abs(x) == IF x < 0 THEN -x ELSE x
        r == a - q * b
    IN IF a = MinI32 /\ b = -1 THEN q = MinI32
       ELSE abs(r) < abs(b) /\ (r = 0 \/ (r < 0) = (a < 0))

\* r is the remainder of a by b (b # 0) with the sign of a
IsRemainder(a, b, r) ==
    LET abs(x) == IF x < 0 THEN -x ELSE x
    IN abs(r) < abs(b) /\ (r = 0 \/ (r < 0) = (a < 0)) /\ (a - r) % abs(b) = 0

\* res is what the division opcode op yields for the operands a and b (b # 0);
\* for the unsigned opcodes the operands are the 32- or 64-bit images, and a
\* quotient or remainder is required where it is one of the numbers of the model
IsResult(op, a, b, res) ==
    CASE op \in {"DIV32", "DIV64"} -> IsQuotient(a, b, res)
      [] op \in {"REM32", "REM64"} -> IsRemainder(a, b, res)
      [] op \in {"DIVU32", "DIVU64"} ->
             IF a >= 0 /\ b > 0 THEN res = a \div b
             ELSE IF a >= 0 THEN res = 0
             ELSE IF b = 2 THEN res = (MaxI32 + (a \div 2)) + 1
             ELSE TRUE
      [] op = "REMU32" ->
             IF a >= 0 /\ b > 0 THEN res = a % b
             ELSE IF a >= 0 THEN res = a
             ELSE IF b = 2 THEN res = a % 2
             ELSE TRUE

\* C19, one step: a division or remainder opcode with a zero divisor returns
\* DIVZERO and writes no register; with a nonzero divisor the call continues with
\* the quotient or remainder in R[dst]
C19_DivStep ==
    (AboutToDispatch /\ \E i \in 1..Len(DivOps) : NextIns.op = DivOps[i])
        => LET f == Top(cstack).frame
               a == frames[f].regs[NextIns.s1].v
               b == frames[f].regs[NextIns.s2].v
           IN IF b = 0
              THEN Raises(RUNE_ERR_DIVZERO) /\ frames'[f].regs = frames[f].regs
              ELSE /\ cstack' = cstack
                   /\ IsResult(NextIns.op, a, b, frames'[f].regs[NextIns.dst].v)

\* C19: DIV32, DIVU32, REM32, REMU32, DIV64, DIVU64 and REM64 with a zero divisor
\* abort the call chain with DIVZERO without writing R[dst]; with a nonzero
\* divisor they yield the quotient or remainder and the call continues.
C19_DivZeroTraps == [][C19_DivStep]_vars

\* C17: two VMs in identical states (module, memory contents and page count,
\* globals, fuel counter and budget, staged arguments, host table) given the same
\* rune_vm_call with the same arguments return the same error code and result
\* value and are left with identical fuel counters, memory and globals.
C17_Determinism ==
    (other.cmp # <<>> /\ cstack = <<>> /\ other.vm.cstack = <<>>)
        => /\ last.err = other.vm.last.err
           /\ last.ret = other.vm.last.ret
           /\ fuel_used = other.vm.fuel_used
           /\ memory = other.vm.memory
           /\ globals = other.vm.globals

\* C18, one step: the module stays as it was loaded, and a step of the VM the
\* host operates leaves the other VM as it was
C18_Step ==
    /\ mod' = mod
    /\ (other'.id = other.id /\ other'.cmp = other.cmp) => other'.vm = other.vm

\* C18: two VMs of the same module share no mutable state: under any
\* interleaving of register/init/call/refuel on the two VMs an operation on one
\* leaves the other's memory, globals, fuel counter, frame_count, staged
\* arguments and host table unchanged, and the module's parsed contents (the
\* global templates among them) unchanged.
C18_Independence == [][C18_Step]_vars

\* C18 witness: both VMs are initialized and the host has changed a global and
\* the memory of one of them; the other and the module's template are as
\* rune_vm_init left them
C18_Witness ==
    /\ other.id # 0
    /\ initialized
    /\ other.vm.initialized
    /\ globals[0] = rune_i32(1)
    /\ other.vm.globals[0] = rune_i32(0)
    /\ mod.globals[0].value = rune_i32(0)
    /\ memory # other.vm.memory

(* ------------------------------- C21 --------------------------------- *)

\* the number of bytes a load or store opcode accesses
C21_Width(op) ==
    CASE op \in {"LOAD8", "LOAD8S", "STORE8"} -> 1
      [] op \in {"LOAD16", "LOAD16S", "STORE16"} -> 2
      [] op \in {"LOAD32", "STORE32"} -> 4
      [] op \in {"LOAD64", "STORE64"} -> 8

\* byte k (from 0) of the two's complement image of the value val
C21_Byte(val, k) ==
    LET w == IF k < 4 THEN val.v ELSE HiWord(val)
    IN (w \div (256 ^ (k % 4))) % 256

\* val truncated to the width of the load opcode ld, as that opcode reads it
C21_Truncated(ld, val) ==
    CASE ld = "LOAD8" -> rune_i32(val.v % 256)
      [] ld = "LOAD8S" -> rune_i32(((val.v + 128) % 256) - 128)
      [] ld = "LOAD16" -> rune_i32(val.v % 65536)
      [] ld = "LOAD16S" -> rune_i32(((val.v + 32768) % 65536) - 32768)
      [] ld = "LOAD32" -> rune_i32(val.v)
      [] ld = "LOAD64" -> [val EXCEPT !.type = "i64"]

\* the values the host has stored
C21_Values == UNION {{argv[2] : argv \in MemArgs(StoreOps[i])} : i \in 1..Len(StoreOps)}

\* the linear memory holds at a the image of val in n bytes
C21_Holds(a, n, val) == \A k \in 0..(n - 1) : memory[a + k] = C21_Byte(val, k)

\* a top-level vm_call of the export of opcode op (immediate 0) has returned OK
C21_Done(op) ==
    /\ cstack = <<>>
    /\ last.op = "vm_call"
    /\ last.err = RUNE_OK
    /\ last.req.func >= 0
    /\ M.funcs[last.req.func].code \in {Arr(CodeStore(op, 0)), Arr(CodeLoad(op, 0))}

\* C21, after a store: the memory holds at a the image of v in n/8 bytes
C21_AfterStore ==
    \A i \in 1..Len(StoreOps) :
        C21_Done(StoreOps[i])
            => C21_Holds(last.req.args[1].v, C21_Width(StoreOps[i]), last.req.args[2])

\* C21, after a load: when the memory holds at a the image of a stored value v,
\* the load has returned v truncated to the width
C21_AfterLoad ==
    \A i \in 1..Len(LoadOps) : \A val \in C21_Values :
        (C21_Done(LoadOps[i])
            /\ C21_Holds(last.req.args[1].v, C21_Width(LoadOps[i]), val))
            => last.ret = C21_Truncated(LoadOps[i], val)

\* C21, one step: a store that does not trap changes no byte outside [a, a+n/8),
\* and a step that is neither a store nor the allocation of rune_vm_init changes
\* no byte at all
C21_Step ==
    LET storing == AboutToDispatch /\ NextIns.op \in {StoreOps[i] : i \in 1..Len(StoreOps)}
    IN /\ (storing /\ \A rg \in GuestRanges : ~Beyond(rg))
           => \A rg \in GuestRanges : \A b \in DOMAIN memory :
                  (b < rg[1] \/ b >= rg[1] + rg[2]) => memory'[b] = memory[b]
       /\ (~storing /\ ~Completes("init")) => memory' = memory

\* C21: for every width n in {8,16,32,64}, every value v and every in-bounds
\* address a, STOREn of v at a followed by LOADn (LOADnS for the signed reading
\* of the narrow widths) at a yields v truncated to n bits, also when the load
\* happens in a later vm_call, provided no write in between overlaps
\* [a, a+n/8); the store changes no byte outside [a, a+n/8).
C21_RoundTrip ==
    /\ [](C21_AfterStore /\ C21_AfterLoad)
    /\ [][C21_Step]_vars

\* C21 witness: a LOAD16S at 1, in a vm_call of its own, has returned the low 16
\* bits of the 305432421 that an earlier STORE left there, sign-extended
C21_Witness ==
    /\ C21_Done("LOAD16S")
    /\ last.req.args = <<rune_i32(1)>>
    /\ C21_Holds(1, 2, rune_i32(305432421))
    /\ last.ret = rune_i32(-30875)

(* ------------------------------- C30 --------------------------------- *)

\* the sum of the unsigned 32-bit base and the unsigned 32-bit immediate of the
\* load or store about to be dispatched, plus its width, exceeds the memory size
\* (a negative i32 stands for an unsigned number of at least 2^31)
C30_Exceeds ==
    LET a == Top(cstack)
        fr == frames[a.frame]
        base == fr.regs[NextIns.s1].v
        imm == M.funcs[a.func].code[fr.pc + 1]
        w == C21_Width(NextIns.op)
    IN \/ base < 0
       \/ imm < 0
       \/ base > MaxI32 - imm
       \/ base + imm > MemBytes - w

\* C30, one step: a load or store whose unsigned base plus immediate plus width
\* exceeds the memory size returns BOUNDS, reads nothing and writes nothing
C30_Step ==
    (/\ AboutToDispatch
     /\ NextIns.op \in {StoreOps[i] : i \in 1..Len(StoreOps)}
                       \cup {LoadOps[i] : i \in 1..Len(LoadOps)}
     /\ C30_Exceeds)
        => (Raises(RUNE_ERR_BOUNDS) /\ memory' = memory /\ access' = {})

\* C30: for every load and store the access traps with BOUNDS whenever the sum of
\* the unsigned 32-bit base R[s1] and the unsigned 32-bit immediate, plus the
\* access width, exceeds memory_pages*RUNE_PAGE_SIZE; a base and immediate whose
\* 32-bit sum wraps around 2^32 never results in a successful access to low
\* memory.
C30_EffectiveAddress == [][C30_Step]_vars

(* ------------------------------- C22 --------------------------------- *)

\* the branch op is taken with a in R[s1] and b in R[s2]
C22_Taken(op, a, b) ==
    CASE op = "JMP" -> TRUE
      [] op = "JZ" -> a = 0
      [] op = "JNZ" -> a # 0
      [] op = "JLT" -> a < b
      [] op = "JLE" -> a <= b

\* C22, one step: the branch at word patch_word, its immediate written by
\* rune_asm_patch_jump(patch_word, target_word), leaves the activation running at
\* word target_word when it is taken and at word patch_word + 2 when it is not
C22_Step ==
    \A op \in JumpOps : \A pt \in JumpPlaces :
        (/\ mod = ModJump(op, pt[1], pt[2])
         /\ AboutToDispatch
         /\ frames[Top(cstack).frame].pc = pt[1])
            => LET fr == frames[Top(cstack).frame]
               IN /\ cstack' = cstack
                  /\ frames'[Top(cstack).frame].pc =
                         IF C22_Taken(op, fr.regs[0].v, fr.regs[1].v)
                         THEN pt[2] ELSE pt[1] + 2

\* C22: for every patch_word and target_word inside a function body, forward or
\* backward, a JMP/JZ/JNZ/JLT/JLE at word patch_word whose immediate was written
\* by rune_asm_patch_jump(patch_word, target_word) transfers control, when the
\* branch is taken, to exactly word target_word, and continues at word
\* patch_word + 2 when it is not taken.
C22_BranchTarget == [][C22_Step]_vars

\* C22 witness: a taken backward branch: the JLT at word 2, patched to word 0,
\* has brought jump(0, 1) back to word 0 after three instructions
C22_Witness ==
    /\ mod = ModJump("JLT", 2, 0)
    /\ cstack # <<>>
    /\ Top(cstack).args = <<rune_i32(0), rune_i32(1)>>
    /\ frames[Top(cstack).frame].pc = 0
    /\ dispatched.call = 3

\* C22 witness: a branch not taken: the JZ at word 0, patched to word 4, has let
\* jump(1, 1) continue at word 2
C22_WitnessNotTaken ==
    /\ mod = ModJump("JZ", 0, 4)
    /\ cstack # <<>>
    /\ Top(cstack).args = <<rune_i32(1), rune_i32(1)>>
    /\ frames[Top(cstack).frame].pc = 2
    /\ dispatched.call = 1

(* ------------------------------- C25 --------------------------------- *)

\* the module's max_pages, or its initial_pages when max_pages is 0
C25_EffectiveMaxPages ==
    IF M.mem_max_pages = 0 THEN M.mem_initial_pages ELSE M.mem_max_pages

\* effective_max_pages * RUNE_PAGE_SIZE exceeds config.memory_limit
C25_Exceeds == C25_EffectiveMaxPages * RUNE_PAGE_SIZE > cfg.memory_limit

\* rune_vm_init, called in this step, returns in it or starts _init
C25_InitActs ==
    /\ InitStep
    /\ \/ Completes("init")
       \/ Top(cstack').at = "run"

\* C25 as stated, one step: whatever else holds of the VM, a rune_vm_init over
\* the limit returns OOM, and any other rune_vm_init leaves memory_max and
\* memory_pages at the module's values when it returns
C25_StatedStep ==
    Completes("init")
        => IF C25_Exceeds
           THEN last'.err = RUNE_ERR_OOM /\ ~initialized' /\ memory' = <<>>
           ELSE memory_max' = C25_EffectiveMaxPages /\ memory_pages' = M.mem_initial_pages

\* C25 as stated: vm_init fails with OOM, leaving the VM uninitialized with no
\* linear memory, whenever effective_max_pages * RUNE_PAGE_SIZE exceeds
\* config.memory_limit; otherwise memory_max = effective_max_pages and
\* memory_pages = initial_pages after init.
C25_MemoryLimitStated == [][C25_StatedStep]_vars

\* C25 amended, one step: a rune_vm_init with every import resolved returns OOM
\* when the limit is exceeded, the VM staying uninitialized and without memory;
\* otherwise it has set memory_max and memory_pages when it returns or starts
\* _init
C25_Step ==
    (C25_InitActs /\ ~SomeImportUnresolved)
        => IF C25_Exceeds
           THEN /\ Completes("init")
                /\ last'.err = RUNE_ERR_OOM
                /\ ~initialized'
                /\ memory' = <<>>
                /\ memory_pages' = 0
           ELSE /\ memory_max' = C25_EffectiveMaxPages
                /\ memory_pages' = M.mem_initial_pages
                /\ M.has_memory => Count(memory') = C25_EffectiveMaxPages * RUNE_PAGE_SIZE

\* C25 (amended): when every import is resolved, vm_init fails with OOM, leaving
\* the VM uninitialized with no linear memory, whenever effective_max_pages *
\* RUNE_PAGE_SIZE exceeds config.memory_limit (effective_max_pages being the
\* module's max_pages, or its initial_pages when max_pages is 0); otherwise
\* memory_max = effective_max_pages and memory_pages = initial_pages once
\* vm_init has allocated the memory (when it starts _init, or returns without
\* one).
C25_MemoryLimit == [][C25_Step]_vars

\* C25 witness: the module without a maximum, one initial page, limit 0:
\* rune_vm_init has returned OOM
C25_Witness ==
    /\ mod = ModNoMax
    /\ cfg.memory_limit = 0
    /\ last.op = "init"
    /\ last.err = RUNE_ERR_OOM
    /\ memory = <<>>

\* C25 witness: a memory of exactly memory_limit bytes is allocated
C25_WitnessAtLimit ==
    /\ mod = ModNoImports
    /\ cfg.memory_limit = 2 * RUNE_PAGE_SIZE
    /\ last.op = "init"
    /\ last.err = RUNE_OK
    /\ memory_max = 2
    /\ memory_pages = 1

(* ------------------------------- C26 --------------------------------- *)

\* the linear memory with every data segment applied to zeroed pages
C26_InitialMemory ==
    LET covering(b) == {i \in 0..(M.data_seg_count - 1) :
                           /\ b >= M.data_segs[i].offset
                           /\ b < M.data_segs[i].offset + M.data_segs[i].size}
        lastSeg(b) == CHOOSE i \in covering(b) : \A j \in covering(b) : j <= i
    IN [b \in 0..(C25_EffectiveMaxPages * RUNE_PAGE_SIZE - 1) |->
           IF covering(b) = {} THEN 0
           ELSE M.data_segs[lastSeg(b)].data[b - M.data_segs[lastSeg(b)].offset + 1]]

\* an activation of the C call stack is a run of _init on behalf of rune_vm_init
C26_IsInit(a) == a.caller = "init" /\ a.at # "crashed"

\* C26, the step in which _init starts: it is a rune_vm_init that starts it, with
\* zero arguments and zeroed registers, no guest instruction has been executed
\* by this rune_vm_init, every import is resolved, the memory is allocated with
\* the data segments applied, the globals hold their initial values and
\* initialized is set
C26_StartStep ==
    (Len(cstack') = Len(cstack) + 1 /\ C26_IsInit(Top(cstack')))
        => /\ ops' = ops + 1
           /\ M.init_func >= 0
           /\ Top(cstack').func = M.init_func
           /\ Top(cstack').args = <<>>
           /\ \A r \in DOMAIN frames'[Top(cstack').frame].regs :
                  frames'[Top(cstack').frame].regs[r] = ZeroVal
           /\ frames'[Top(cstack').frame].pc = 0
           /\ cstack = <<>> => dispatched'.call = 0
           /\ ~SomeImportUnresolved
           /\ memory' = C26_InitialMemory
           /\ memory_pages' = M.mem_initial_pages
           /\ globals' = GlobalTemplates
           /\ initialized'

\* C26, the step in which rune_vm_init returns OK for a module that declares
\* _init: it returns from the run of _init it started, which ends with it
C26_ReturnStep ==
    (Completes("init") /\ last'.err = RUNE_OK /\ M.init_func >= 0)
        => /\ cstack # <<>>
           /\ C26_IsInit(Top(cstack))
           /\ Top(cstack).func = M.init_func
           /\ cstack' = Pop(cstack)

\* C26: when _init starts executing inside vm_init, every import has been
\* verified resolved, linear memory is allocated with all data segments applied,
\* the globals hold their initial values and initialized is set; _init is
\* executed exactly once per successful vm_init, with zero arguments, and never
\* by module_load or vm_new (before the first host call nothing has run, and a
\* run of _init is started by rune_vm_init only).
C26_InitOrder ==
    /\ [](ops = 0 => (cstack = <<>> /\ dispatched.call = 0 /\ ~initialized))
    /\ [][C26_StartStep /\ C26_ReturnStep]_vars

\* C26 witness: rune_vm_init of the module with _init has returned OK after _init
\* ran to its RET
C26_Witness ==
    /\ mod = ModWithInit
    /\ last.op = "init"
    /\ last.err = RUNE_OK
    /\ cstack = <<>>
    /\ dispatched.call >= Len(CodeInit) - 2

(* ------------------------------- C29 --------------------------------- *)

\* the data segment does not fit in the initial memory: its unsigned offset plus
\* its size, taken without wrap-around, exceeds initial_pages * RUNE_PAGE_SIZE
\* (a negative offset stands for one of 2^31 or more)
C29_Misfit(seg) ==
    \/ seg.offset < 0
    \/ seg.offset + seg.size > M.mem_initial_pages * RUNE_PAGE_SIZE

\* C29, one step: a rune_vm_init that gets as far as the data segments (imports
\* resolved, limit not exceeded) fails when a segment does not fit, and when the
\* module has data segments but no memory; it writes no byte outside the initial
\* memory
C29_Step ==
    (InitStep /\ ~SomeImportUnresolved /\ ~C25_Exceeds)
        => /\ access' \subseteq 0..(M.mem_initial_pages * RUNE_PAGE_SIZE - 1)
           /\ (\/ \E i \in 0..(M.data_seg_count - 1) : C29_Misfit(M.data_segs[i])
               \/ M.data_seg_count > 0 /\ ~M.has_memory)
                  => (Completes("init") /\ last'.err # RUNE_OK)

\* C29: for every 32-bit offset and size, vm_init copies a data segment into
\* linear memory only if offset + size, computed without 32-bit wrap-around, is
\* at most initial_pages * RUNE_PAGE_SIZE; a segment that does not fit makes
\* vm_init fail and no byte outside [0, initial_pages * RUNE_PAGE_SIZE) is
\* written; a module with data segments but no memory is not silently
\* initialized.
C29_DataSegmentsFit == [][C29_Step]_vars

(* ------------------------------- C28 --------------------------------- *)

\* the section header the next turn of the section loop reads: [v: the declared
\* size, r: the reader at the section start]
C28_Header == read_uint(loading.raw, read_u8(loading.raw, loading.r).r, 4)

\* the loader is about to process a section whose header is complete
C28_Section ==
    loading.at = "sections" /\ MoreSections(loading) /\ ~C28_Header.r.error

\* the load goes on after this step: no error was raised
C28_GoesOn == loading'.at = "sections" /\ loading'.err = RUNE_OK /\ ~loading'.r.error

\* C28, one step: after a section that raised no error the reader is at section
\* start + declared size
C28_Step ==
    (C28_Section /\ C28_GoesOn)
        => loading'.r.pos = C28_Header.r.pos + C28_Header.v

\* C28: for every section the loader processes, known or unknown, parsing of the
\* next section resumes exactly at section start + declared size: a parser that
\* needs fewer bytes is padded, an unknown ID is skipped whole, and a section
\* whose contents need more bytes than its declared size makes the load fail
\* instead of consuming bytes of the following section.
C28_ExactConsumption == [][C28_Step]_vars

(* ------------------------------- C27 --------------------------------- *)

\* the function indices of the module m are laid out imports first: there are at
\* least as many functions as imports, index i below the import count is import
\* i, and every index from the import count on is a body
C27_ImportsLow(m) ==
    /\ m.func_count >= m.import_count
    /\ \A i \in 0..(m.func_count - 1) :
           IF i < m.import_count
           THEN m.funcs[i + 1].is_import /\ m.funcs[i + 1].import_idx = i
           ELSE ~m.funcs[i + 1].is_import

\* C27: in every module that module_load accepts with K imports, whatever the
\* order of its IMPORT, FUNC and CODE sections and whether or not it has a FUNC
\* section, function indices [0..K) are the imports (index i being import i),
\* indices [K..func_count) are bodies, and func_count >= K.
C27_ImportsOccupyLowIndices ==
    loading.at = "loaded" => C27_ImportsLow(loading.mod)

(* ------------------------------- C24 --------------------------------- *)

\* the uint32_t idx is below the count n
C24_Below(idx, n) == 0 <= idx /\ idx < n

\* every index of the module m denotes something: the type index of each body
\* and of each import is below the number of types, and the index of each
\* export is in range for its kind
C24_IndicesInRange(m) ==
    /\ \A i \in 1..m.func_count :
           ~m.funcs[i].is_import => C24_Below(m.funcs[i].type_idx, m.type_count)
    /\ \A i \in 1..m.import_count : C24_Below(m.imports[i].type_idx, m.type_count)
    /\ \A i \in 1..m.export_count :
           LET ex == m.exports[i]
           IN /\ ex.kind = Enum("RUNE_EXPORT_FUNC") => C24_Below(ex.idx, m.func_count)
              /\ ex.kind = Enum("RUNE_EXPORT_GLOBAL") => C24_Below(ex.idx, m.global_count)
              /\ ex.kind = Enum("RUNE_EXPORT_MEMORY") => m.has_memory

\* C24: module_load returns BADMODULE for every module in which the type index
\* of a function body or of an import is >= the number of types, or the index
\* of an export is out of range for its kind (function index >= the function
\* count, global index >= the global count, a memory export without a memory):
\* no such module is returned as loaded.
C24_LoadValidates ==
    loading.at = "loaded" => C24_IndicesInRange(loading.mod)

(* ------------------------------- C23 --------------------------------- *)

\* index idx denotes in the loaded module m the function it denotes in the
\* assembler a: both the same import (module and name), or both the same body
\* (registers and code)
C23_SameFunction(a, m, idx) ==
    /\ C24_Below(idx, m.func_count)
    /\ LET af == a.funcs[idx + 1]
           mf == m.funcs[idx + 1]
       IN /\ mf.is_import = af.is_import
          /\ IF af.is_import
             THEN /\ C24_Below(mf.import_idx, m.import_count)
                  /\ m.imports[mf.import_idx + 1].module = a.imports[af.import_idx + 1].module
                  /\ m.imports[mf.import_idx + 1].name = a.imports[af.import_idx + 1].name
             ELSE /\ mf.reg_count = af.reg_count
                  /\ mf.code = af.code

\* the loaded module m is what the assembler asm = [a, rets] was given: as many
\* exports, under the same names, each of the index the assembler returned and
\* denoting the same function
C23_RoundTrips(asm, m) ==
    /\ m.export_count = Len(asm.a.exports)
    /\ \A k \in 1..m.export_count :
           /\ m.exports[k].name = asm.a.exports[k].name
           /\ m.exports[k].idx = asm.rets[k]
           /\ C23_SameFunction(asm.a, m, asm.rets[k])

\* C23: for any sequence of rune_asm_import, rune_asm_func and
\* rune_asm_export_func calls in any interleaving, followed by
\* rune_asm_finalize, module_load succeeds, the export count and names equal the
\* assembler's inputs, and every exported function index denotes in the loaded
\* module the same function (the same body or the same import) for which the
\* assembler returned that index.
C23_AssemblerLoaderRoundTrip ==
    (loading.src.kind = "program" /\ loading.at \in {"loaded", "rejected"})
        => /\ loading.at = "loaded"
           /\ C23_RoundTrips(AsmProgram(loading.src.prog), loading.mod)

(* ------------------------------- C31 --------------------------------- *)

\* the instruction about to be dispatched is a signed division or remainder of
\* the least value of its type by -1.  The 64-bit values of SpecArith are those
\* within the int32_t range, so only the 32-bit opcodes meet the case
C31_Overflowing ==
    /\ AboutToDispatch
    /\ NextIns.op \in {"DIV32", "REM32"}
    /\ frames[Top(cstack).frame].regs[NextIns.s1].v = MinI32
    /\ frames[Top(cstack).frame].regs[NextIns.s2].v = -1

\* C31, one step: the overflowing division leaves INT32_MIN, the overflowing
\* remainder 0, in R[dst], and the call goes on
C31_Step ==
    C31_Overflowing
        => /\ cstack' = cstack
           /\ frames'[Top(cstack).frame].regs[NextIns.dst] =
                  rune_i32(IF NextIns.op = "DIV32" THEN MinI32 ELSE 0)

\* C31: DIV32 of INT32_MIN by -1 yields INT32_MIN and DIV64 of INT64_MIN by -1
\* yields INT64_MIN, without trapping or faulting; REM32 / REM64 of the minimum
\* value by -1 yield 0.
C31_DivisionOverflowWraps == [][C31_Step]_vars

(* ------------------------------- C32 --------------------------------- *)

\* this step enters a bytecode function
C32_Enters ==
    /\ Len(cstack') = Len(cstack) + 1
    /\ Top(cstack').kind = "exec"

\* the arguments passed to the function this step enters: the values OP_CALL
\* finds staged, or the vector of the host
C32_Passed ==
    IF Top(cstack').caller = "op_call"
    THEN [i \in 1..arg_count |-> arg_buf[i - 1]]
    ELSE Top(cstack').args

\* C32, on entry: the first min(argument count, reg_count) registers hold the
\* arguments and every other register of the window is zero
C32_EntryStep ==
    C32_Enters
        => LET a == Top(cstack')
               rc == M.funcs[a.func].reg_count
               n == IF Len(C32_Passed) < rc THEN Len(C32_Passed) ELSE rc
           IN \A i \in 0..(RUNE_MAX_REGS - 1) :
                  frames'[a.frame].regs[i] = IF i < n THEN C32_Passed[i + 1] ELSE ZeroVal

\* the running function is at a RET or at the end of its code
C32_Returning ==
    /\ cstack # <<>>
    /\ Top(cstack).kind = "exec"
    /\ Top(cstack).at = "run"
    /\ \/ frames[Top(cstack).frame].pc \notin DOMAIN M.funcs[Top(cstack).func].code
       \/ AboutToDispatch /\ NextIns.op = "RET"

\* C32, on return: R[0] of the function is the value returned; it lands in the
\* caller's R[dst] with the caller's other registers unchanged, or goes to the
\* host
C32_ReturnStep ==
    C32_Returning
        => LET a == Top(cstack)
               r0 == frames[a.frame].regs[0]
           IN IF a.caller = "op_call"
              THEN LET c == cstack[Len(cstack) - 1]
                   IN /\ cstack' = Pop(cstack)
                      /\ frames'[c.frame].regs =
                             [frames[c.frame].regs EXCEPT ![a.dst] = r0]
              ELSE /\ Completes(a.caller)
                   /\ last'.err = RUNE_OK
                   /\ last'.ret = r0

\* C32: on every entry to a bytecode function, registers R[0..n) hold the n
\* passed arguments (n = min(argument count, reg_count)) and every other register
\* of the window is zero, regardless of what earlier activations that used the
\* same frame slot left there; the value returned is R[0] at RET or at
\* fall-through off the end of the code, and it lands in the caller's R[dst] with
\* the caller's other registers unchanged.
C32_CleanWindow == [][C32_EntryStep /\ C32_ReturnStep]_vars

\* pass_narrow(5, 6) has come back from its CALL of narrow, a function of one
\* register entered with two arguments in the frame slot that the dirty() of the
\* host's previous call left with R1 = 7 and R2 = 9: the slot holds what narrow
\* found on entry, the caller has the returned value in R1 and its own R0, R2
C32_DirtySlotReentered ==
    /\ last.op = "vm_call"
    /\ last.req.func = 4
    /\ last.err = RUNE_OK
    /\ Len(cstack) = 1
    /\ Top(cstack).func = 3
    /\ frames[0].pc = 6
    /\ frames[1].regs[0] = rune_i32(5)
    /\ \A i \in 1..(RUNE_MAX_REGS - 1) : frames[1].regs[i] = ZeroVal
    /\ frames[0].regs[0] = rune_i32(5)
    /\ frames[0].regs[1] = rune_i32(5)
    /\ frames[0].regs[2] = rune_i32(7)

(* ------------------------------- C33 --------------------------------- *)

\* a MEM_GROW is about to be dispatched
C33_Growing == AboutToDispatch /\ NextIns.op = "MEM_GROW"

\* the page count the MEM_GROW about to be dispatched asks for (a negative i32
\* stands for a uint32_t of at least 2^31)
C33_Req == frames[Top(cstack).frame].regs[NextIns.s1].v

\* the MEM_GROW about to be dispatched succeeds: the uint32_t sum of memory_pages
\* and the request is within memory_max (a request of at least 2^31 makes the sum
\* wrap to memory_pages + req when that is not negative)
C33_Succeeds ==
    IF C33_Req >= 0
    THEN memory_pages + C33_Req <= memory_max
    ELSE memory_pages + C33_Req >= 0 /\ memory_pages + C33_Req <= memory_max

\* C33, one step: a successful MEM_GROW leaves the old page count in R[dst], the
\* added pages zero and the old pages as they were; a failed one leaves the
\* memory as it was
C33_Step ==
    C33_Growing
        => IF C33_Succeeds
           THEN /\ cstack' = cstack
                /\ frames'[Top(cstack).frame].regs[NextIns.dst] = rune_i32(memory_pages)
                /\ \A i \in DOMAIN memory' :
                       /\ i < memory_pages * RUNE_PAGE_SIZE => memory'[i] = memory[i]
                       /\ (i >= memory_pages * RUNE_PAGE_SIZE
                           /\ i < memory_pages' * RUNE_PAGE_SIZE) => memory'[i] = 0
           ELSE memory' = memory

\* C33: a successful MEM_GROW returns in R[dst] the page count from before the
\* grow, every byte of the newly added pages reads as zero afterwards (even if
\* that region was written earlier), and every byte of the pre-existing pages is
\* unchanged; a failed MEM_GROW changes no memory byte.
C33_GrowZeroes == [][C33_Step]_vars

\* C33 for the requests below 2^31
C33_GrowZeroesSmall == [][(C33_Growing /\ C33_Req < 0) \/ C33_Step]_vars

(* ------------------------------- C34 --------------------------------- *)

\* the staging slots this step changes
C34_SlotsChanged == {i \in DOMAIN arg_buf : arg_buf'[i] # arg_buf[i]}

\* C34, one step of ARG: the instruction goes on, changes at most one staging
\* slot and arg_count, and leaves the fuel counter, the initialized flag, the
\* error buffer, the registers, the memory and the globals as they were
C34_ArgStep ==
    (AboutToDispatch /\ NextIns.op = "ARG")
        => /\ cstack' = cstack
           /\ Cardinality(C34_SlotsChanged) <= 1
           /\ fuel_used' = fuel_used
           /\ initialized' = initialized
           /\ error_buf' = error_buf
           /\ \A f \in DOMAIN frames : frames'[f].regs = frames[f].regs
           /\ memory' = memory
           /\ globals' = globals

\* C34, one step of CALL / CALL_HOST: at most RUNE_MAX_PARAMS staged values are
\* copied, and the copy does not fault
C34_CallStep ==
    (AboutToDispatch /\ NextIns.op \in {"CALL", "CALL_HOST"})
        => /\ arg_count <= RUNE_MAX_PARAMS
           /\ Top(cstack').at # "crashed"

\* C34: in every reachable state arg_count <= RUNE_MAX_PARAMS, and an ARG never
\* writes outside the staging buffer; an ARG whose slot operand is outside the
\* buffer (or whose encoding carries any s1/s2 byte) modifies no VM state other
\* than at most one staging slot and arg_count - in particular not the fuel
\* counter, the initialized flag, the error buffer or the caller's registers -
\* and CALL / CALL_HOST never copy more than RUNE_MAX_PARAMS staged values.
C34_StagingBound ==
    /\ [](arg_count <= RUNE_MAX_PARAMS)
    /\ [][C34_ArgStep /\ C34_CallStep]_vars

(* ------------------------------- C35 --------------------------------- *)

\* the instruction about to be dispatched takes an immediate and is the last
\* word of the code
C35_ImmMissing ==
    /\ AboutToDispatch
    /\ NextIns.op \in ImmOps
    /\ frames[Top(cstack).frame].pc + 1 \notin DOMAIN M.funcs[Top(cstack).func].code

\* the running function has its PC outside the code
C35_Outside ==
    /\ cstack # <<>>
    /\ Top(cstack).kind = "exec"
    /\ Top(cstack).at = "run"
    /\ frames[Top(cstack).frame].pc \notin DOMAIN M.funcs[Top(cstack).func].code

\* C35, one step: an instruction whose immediate is missing, and a PC outside
\* the code, end the function (or trap): the activation is gone after the step
C35_Step == (C35_ImmMissing \/ C35_Outside) => Len(cstack') = Len(cstack) - 1

\* C35: the interpreter never reads a code word at an index >= code_size/4 of the
\* executing function, neither as an instruction word nor as an immediate; a
\* function whose last instruction lacks its immediate word(s), and a jump whose
\* target lies outside [0, code_words), end the function or trap without reading
\* outside the code slice.
C35_CodeFetchBound == [][C35_Step]_vars

\* C35 for the PC outside the code alone
C35_OutsideEnds == [][C35_Outside => Len(cstack') = Len(cstack) - 1]_vars

(* ------------------------------- C36 --------------------------------- *)

\* the function indices of the module
C36_Indices == 0..(M.func_count - 1)

\* C36, one step of the interpreter: a CALL whose immediate is no function index
\* makes its function abort with an error
C36_CallStep ==
    (AboutToDispatch /\ NextIns.op = "CALL" /\ NextImm \notin C36_Indices)
        => IF Top(cstack).caller \in {"vm_call", "init"}
           THEN last'.n = last.n + 1 /\ last'.err # RUNE_OK
           ELSE /\ Len(cstack') = Len(cstack) - 1
                /\ Top(cstack').at = "done"
                /\ Top(cstack').result # RUNE_OK

\* C36, the host's part: no rune_vm_call has run a function whose index is not
\* one of the module and come back without an error, and none has died in it
C36_VmCall ==
    /\ (last.op = "vm_call" /\ last.err = RUNE_OK) => last.req.func \in C36_Indices
    /\ \A i \in DOMAIN cstack : cstack[i].kind = "exec" => cstack[i].func \in C36_Indices

\* C36: a CALL whose immediate function index is >= func_count, and a vm_call of
\* an export whose function index is >= func_count, abort with an error and never
\* use the out-of-range index to select a function; every function actually
\* entered has an index < func_count.
C36_FunctionIndexBound == []C36_VmCall /\ [][C36_CallStep]_vars

(* ------------------------------- C37 --------------------------------- *)

\* C37: in every reachable state of an initialized VM, memory_pages <=
\* memory_max and the linear-memory buffer is allocated for memory_max pages, so
\* memory_pages * RUNE_PAGE_SIZE never exceeds the allocated size; this holds for
\* every MEMORY section, including one declaring initial_pages > max_pages > 0,
\* and after any sequence of MEM_GROW operations.
C37_MemorySize ==
    initialized
        => /\ memory_pages <= memory_max
           /\ Count(memory) = memory_max * RUNE_PAGE_SIZE
           /\ memory_pages * RUNE_PAGE_SIZE <= Count(memory)

\* C37 for the MEMORY sections whose initial_pages is at most max_pages, or
\* whose max_pages is 0
C37_MemorySizeOrdered ==
    (M.mem_max_pages = 0 \/ M.mem_initial_pages <= M.mem_max_pages) => C37_MemorySize

(* ------------------------------- C38 --------------------------------- *)

\* C38: arg_count is 0 whenever no vm_call is in progress, so values staged by
\* ARG in a vm_call that returned or aborted (trap, FUEL, NOIMPORT) before
\* reaching its CALL / CALL_HOST are never passed to a callee or host callback
\* during a later vm_call.
C38_NoStaleArguments == cstack = <<>> => arg_count = 0

(* ------------------------------- C39 --------------------------------- *)

\* C39: a global whose mutable flag is 0 in the module holds its initial value
\* in every reachable state of every VM; a STGLOBAL that targets it does not
\* change it.
C39_ImmutableGlobals ==
    \A i \in DOMAIN globals : ~M.globals[i].mutable => globals[i] = M.globals[i].value

(* ------------------------------- C40 --------------------------------- *)

\* C40, one step: rune_vm_init on a VM that is initialized leaves the memory,
\* memory_pages, the globals and the fuel counter as they were and enters no
\* function
C40_Step ==
    (initialized /\ InitStep)
        => /\ memory' = memory
           /\ memory_pages' = memory_pages
           /\ globals' = globals
           /\ fuel_used' = fuel_used
           /\ cstack' = cstack

\* C40: calling vm_init on a VM that is already initialized leaves memory
\* contents, memory_pages, globals and the fuel counter unchanged and does not
\* execute _init a second time.
C40_InitOnce == [][C40_Step]_vars

=============================================================================
